---------------------------- MODULE Spec2Model ----------------------------
(***************************************************************************)
(* A model of xgen's Go emitter (src/genGo.go).                            *)
(*                                                                         *)
(* Text is modelled at character level: a string is a sequence of          *)
(* one-character strings, so that splitting, capitalisation, quoting and   *)
(* substring tests are computed the way the Go code computes them.         *)
(* The emitted source text (gen.Field) is kept as a sequence of chunks     *)
(* (type declarations and Validate methods), each holding the strings the  *)
(* code formats into it.                                                   *)
(***************************************************************************)
EXTENDS Integers, Sequences, FiniteSets, TLC

VARIABLES
    call,             \* arguments of a buildValidateTag call
    ret,              \* its result
    tagPc,            \* "call" before the call, "return" after it
    gen,              \* the CodeGenerator
    fieldNameCount,   \* package-level map used by genGoFieldName
    pc,               \* position inside GenGo
    output,           \* text written to the output file by this run
    err,              \* error returned by GenGo
    run,              \* 1 for the first run of the emitter, 2 for the second
    firstOutput,      \* text written by the first run
    opt,              \* the parser's Options: its stacks, ProtoTree and context
    stream            \* the events dispatched so far, and who moved the SimpleType stack

tagVars == <<call, ret, tagPc>>
genVars == <<gen, fieldNameCount, pc, output, err, run, firstOutput>>
parseVars == <<opt, stream>>
vars == <<call, ret, tagPc, gen, fieldNameCount, pc, output, err, run, firstOutput, opt, stream>>

-----------------------------------------------------------------------------
(* Bounds of the model. *)

\* longest enumeration list of a restriction in the buildValidateTag inputs
MaxEnum == 2

-----------------------------------------------------------------------------
(* Strings. *)

LowerChars == <<"a","b","c","d","e","f","g","h","i","j","k","l","m",
                "n","o","p","q","r","s","t","u","v","w","x","y","z">>
UpperChars == <<"A","B","C","D","E","F","G","H","I","J","K","L","M",
                "N","O","P","Q","R","S","T","U","V","W","X","Y","Z">>
DigitChars == <<"0","1","2","3","4","5","6","7","8","9">>

IsUpper(c) == \E i \in 1..26 : UpperChars[i] = c
IsLower(c) == \E i \in 1..26 : LowerChars[i] = c
IsDigit(c) == \E i \in 1..10 : DigitChars[i] = c

ToUpperChar(c) ==
    IF IsLower(c) THEN UpperChars[CHOOSE i \in 1..26 : LowerChars[i] = c] ELSE c

ToLowerChar(c) ==
    IF IsUpper(c) THEN LowerChars[CHOOSE i \in 1..26 : UpperChars[i] = c] ELSE c

\* the literals the emitter writes and compares with
StrString  == <<"s","t","r","i","n","g">>
StrInt     == <<"i","n","t">>
StrBool    == <<"b","o","o","l">>
StrFloat64 == <<"f","l","o","a","t","6","4">>
StrTime    == <<"t","i","m","e",".","T","i","m","e">>
StrIface   == <<"i","n","t","e","r","f","a","c","e","{","}">>

RECURSIVE Concat(_)
Concat(ss) == IF ss = <<>> THEN <<>> ELSE Head(ss) \o Concat(Tail(ss))

\* strings.Join
RECURSIVE Join(_, _)
Join(ss, sep) ==
    IF ss = <<>> THEN <<>>
    ELSE IF Len(ss) = 1 THEN ss[1]
    ELSE ss[1] \o sep \o Join(Tail(ss), sep)

HasPrefix(s, p) == Len(s) >= Len(p) /\ SubSeq(s, 1, Len(p)) = p
HasSuffix(s, p) == Len(s) >= Len(p) /\ SubSeq(s, Len(s) - Len(p) + 1, Len(s)) = p

\* strings.Contains
Contains(s, sub) ==
    \E i \in 1..(Len(s) - Len(sub) + 1) : SubSeq(s, i, i + Len(sub) - 1) = sub

\* strings.ContainsAny
ContainsAny(s, chars) == \E i \in 1..Len(s) : s[i] \in chars

\* fmt's %d (and %g of the integral values the model uses)
RECURSIVE Digits(_)
Digits(n) == IF n < 10 THEN <<DigitChars[n + 1]>>
             ELSE Digits(n \div 10) \o <<DigitChars[(n % 10) + 1]>>

Itoa(n) == IF n < 0 THEN <<"-">> \o Digits(0 - n) ELSE Digits(n)

\* strings.FieldsFunc(s, f): the maximal runs of characters not in seps
RECURSIVE FieldsFrom(_, _, _)
FieldsFrom(s, seps, cur) ==
    IF s = <<>> THEN (IF cur = <<>> THEN <<>> ELSE <<cur>>)
    ELSE IF Head(s) \in seps
         THEN (IF cur = <<>> THEN <<>> ELSE <<cur>>) \o FieldsFrom(Tail(s), seps, <<>>)
         ELSE FieldsFrom(Tail(s), seps, Append(cur, Head(s)))

FieldsFunc(s, seps) == FieldsFrom(s, seps, <<>>)

\* fmt's %q (strconv.Quote) on the characters of the model's alphabets
QuoteChar(c) ==
    CASE c = "\\" -> <<"\\", "\\">>
      [] c = "\"" -> <<"\\", "\"">>
      [] c = "\t" -> <<"\\", "t">>
      [] c = "\n" -> <<"\\", "n">>
      [] c = "\r" -> <<"\\", "r">>
      [] OTHER    -> <<c>>

RECURSIVE QuoteBody(_)
QuoteBody(s) == IF s = <<>> THEN <<>> ELSE QuoteChar(Head(s)) \o QuoteBody(Tail(s))

GoQuote(s) == <<"\"">> \o QuoteBody(s) \o <<"\"">>

\* the element of a set of one element. Once({ e : x \in {v} }) is e with x
\* the value of v, computed once: a local variable of the code (x := v), or
\* the generator an emitter is handed.
Once(S) == CHOOSE x \in S : TRUE

-----------------------------------------------------------------------------
(* Restrictions. *)

NoRestriction ==
    [Enum |-> <<>>, PatternStr |-> <<>>,
     HasLength |-> FALSE, Length |-> 0,
     HasMinLength |-> FALSE, MinLength |-> 0,
     HasMaxLength |-> FALSE, MaxLength |-> 0,
     HasMin |-> FALSE, Min |-> 0, MinExclusive |-> FALSE,
     HasMax |-> FALSE, Max |-> 0, MaxExclusive |-> FALSE]

hasRestrictions(r) ==
    \/ Len(r.Enum) > 0
    \/ r.PatternStr /= <<>>
    \/ r.HasLength \/ r.HasMinLength \/ r.HasMaxLength
    \/ r.HasMin \/ r.HasMax

isNumericGoType(t) ==
    t \in { StrInt, StrInt \o <<"8">>, StrInt \o <<"1","6">>, StrInt \o <<"3","2">>,
            StrInt \o <<"6","4">>,
            <<"u">> \o StrInt, <<"u">> \o StrInt \o <<"8">>,
            <<"u">> \o StrInt \o <<"1","6">>, <<"u">> \o StrInt \o <<"3","2">>,
            <<"u">> \o StrInt \o <<"6","4">>,
            <<"f","l","o","a","t","3","2">>, StrFloat64 }


-----------------------------------------------------------------------------
(* buildValidateTag: the go-playground/validator tag of a restriction. *)

KwOmitempty == <<"o","m","i","t","e","m","p","t","y">>
KwDive      == <<"d","i","v","e">>
KwLen       == <<"l","e","n","=">>
KwMin       == <<"m","i","n","=">>
KwMax       == <<"m","a","x","=">>
KwMatches   == <<"m","a","t","c","h","e","s","=">>
KwOneof     == <<"o","n","e","o","f","=">>
KwGt        == <<"g","t","=">>
KwGte       == <<"g","t","e","=">>
KwLt        == <<"l","t","=">>
KwLte       == <<"l","t","e","=">>

Whitespace == {" ", "\t", "\n", "\r"}

\* a variant of tagPattern that leaves alone a pattern that already begins
\* with ^ and ends with $
tagPatternOnce(pattern) ==
    IF Len(pattern) > 0 /\ ~(Head(pattern) = "^" /\ pattern[Len(pattern)] = "$")
    THEN <<"^">> \o pattern \o <<"$">> ELSE pattern

\* the pattern written after matches=
tagPattern(pattern) ==
    IF Len(pattern) > 0 THEN <<"^">> \o pattern \o <<"$">> ELSE pattern

\* a variant of oneofRules that writes the rule whatever the values hold
oneofRulesAlways(r) ==
    IF Len(r.Enum) > 0 THEN << KwOneof \o Join(r.Enum, <<" ">>) >> ELSE <<>>

\* the rule for r.Enum: none when a value holds whitespace
oneofRules(r) ==
    IF Len(r.Enum) > 0 /\ \A i \in 1..Len(r.Enum) : ~ContainsAny(r.Enum[i], Whitespace)
    THEN << KwOneof \o Join(r.Enum, <<" ">>) >>
    ELSE <<>>

stringRules(r) ==
    (IF r.HasLength
     THEN << KwLen \o Itoa(r.Length) >>
     ELSE (IF r.HasMinLength THEN << KwMin \o Itoa(r.MinLength) >> ELSE <<>>)
          \o (IF r.HasMaxLength THEN << KwMax \o Itoa(r.MaxLength) >> ELSE <<>>))
    \o (IF r.PatternStr /= <<>>
        THEN << KwMatches \o tagPattern(r.PatternStr) >> ELSE <<>>)
    \o oneofRules(r)

\* a variant of numericRules that writes the rule of the max first
numericRulesMaxFirst(r) ==
    (IF r.HasMax
     THEN (IF r.MaxExclusive THEN << KwLt \o Itoa(r.Max) >> ELSE << KwLte \o Itoa(r.Max) >>)
     ELSE <<>>)
    \o (IF r.HasMin
        THEN (IF r.MinExclusive THEN << KwGt \o Itoa(r.Min) >> ELSE << KwGte \o Itoa(r.Min) >>)
        ELSE <<>>)

numericRules(r) ==
    (IF r.HasMin
     THEN (IF r.MinExclusive THEN << KwGt \o Itoa(r.Min) >> ELSE << KwGte \o Itoa(r.Min) >>)
     ELSE <<>>)
    \o (IF r.HasMax
        THEN (IF r.MaxExclusive THEN << KwLt \o Itoa(r.Max) >> ELSE << KwLte \o Itoa(r.Max) >>)
        ELSE <<>>)

\* the rules slice before the dive prefix and the join
tagRules(base, r, optional) ==
    (IF optional THEN <<KwOmitempty>> ELSE <<>>)
    \o (IF base = StrString THEN stringRules(r) ELSE <<>>)
    \o (IF isNumericGoType(base) THEN numericRules(r) ELSE <<>>)

buildValidateTag(base, r, optional, isSlice) ==
    IF ~hasRestrictions(r) THEN <<>>
    ELSE Once({ (
         IF Len(rules) = 0 THEN <<>>
         ELSE Join((IF isSlice THEN <<KwDive>> ELSE <<>>) \o rules, <<",">>)
         ) : rules \in { tagRules(base, r, optional) } })

-----------------------------------------------------------------------------
(* The calls of buildValidateTag, on every base, restriction and flag of   *)
(* the sets below.                                                         *)

RECURSIVE SeqsUpTo(_, _)
SeqsUpTo(S, n) ==
    IF n = 0 THEN { <<>> }
    ELSE LET shorter == SeqsUpTo(S, n - 1) IN
         shorter \cup { Append(s, x) : s \in shorter, x \in S }

TagEnumValues == { <<"A">>, <<"A"," ","B">> }

TagPatterns == { <<>>, <<"a">>, <<"\\","d">>, <<"^","a","$">> }

TagBases == { StrString, StrInt, StrBool }

TagRestrictions ==
    { [Enum |-> e, PatternStr |-> p,
       HasLength |-> l[1], Length |-> l[2],
       HasMinLength |-> mn[1], MinLength |-> mn[2],
       HasMaxLength |-> mx[1], MaxLength |-> mx[2],
       HasMin |-> lo[1], Min |-> lo[2], MinExclusive |-> lo[3],
       HasMax |-> hi[1], Max |-> hi[2], MaxExclusive |-> hi[3]] :
         e \in SeqsUpTo(TagEnumValues, MaxEnum), p \in TagPatterns,
         l \in { <<FALSE, 0>>, <<FALSE, 2>>, <<TRUE, 2>> },
         mn \in { <<FALSE, 0>>, <<FALSE, 1>>, <<TRUE, 1>> },
         mx \in { <<FALSE, 0>>, <<FALSE, 3>>, <<TRUE, 3>> },
         lo \in { <<FALSE, 0, FALSE>>, <<FALSE, 5, TRUE>>, <<TRUE, 0, FALSE>>, <<TRUE, 0, TRUE>> },
         hi \in { <<FALSE, 0, FALSE>>, <<FALSE, 9, TRUE>>, <<TRUE, 100, FALSE>>, <<TRUE, 100, TRUE>> } }

NotReturned == << "<", ">" >>

TagInit ==
    /\ call \in [base : TagBases, r : TagRestrictions,
                 optional : BOOLEAN, isSlice : BOOLEAN]
    /\ ret = NotReturned
    /\ tagPc = "call"

CallBuildValidateTag ==
    /\ tagPc = "call"
    /\ ret' = buildValidateTag(call.base, call.r, call.optional, call.isSlice)
    /\ tagPc' = "return"
    /\ UNCHANGED <<call, genVars, parseVars>>

-----------------------------------------------------------------------------
(* Names and type names. *)

\* splitter: the characters genGoFieldName and genGoFieldType split on
Splitters == {":", ".", "-", "_"}

MakeFirstUpperCase(str) ==
    IF str = <<>> THEN <<>> ELSE <<ToUpperChar(str[1])>> \o Tail(str)

RECURSIVE UpperWords(_)
UpperWords(words) ==
    IF words = <<>> THEN <<>>
    ELSE MakeFirstUpperCase(Head(words)) \o UpperWords(Tail(words))

EmptyCount == [n \in {} |-> 0]

\* genGoFieldName(name, unique): the name, and fieldNameCount after the call
genGoFieldName(count, name, unique) ==
    Once({ ( Once({ (
    IF unique
    THEN [fieldName |-> IF n /= 1 THEN base \o Itoa(n) ELSE base,
          count     |-> (base :> n) @@ count]
    ELSE [fieldName |-> base, count |-> count]
    ) : n \in { (IF base \in DOMAIN count THEN count[base] ELSE 0) + 1 } })
    ) : base \in { UpperWords(FieldsFunc(name, Splitters)) } })

\* genGoFieldName(name, false)
GoName(name) == genGoFieldName(EmptyCount, name, FALSE).fieldName

goBuildinType ==
    { <<"x","m","l",".","N","a","m","e">>, <<"b","y","t","e">>, <<"[","]","b","y","t","e">>, <<"b","o","o","l">>, <<"[","]","b","o","o","l">>, <<"c","o","m","p","l","e","x","6","4">>,
      <<"c","o","m","p","l","e","x","1","2","8">>, <<"f","l","o","a","t","3","2">>, <<"f","l","o","a","t","6","4">>, <<"i","n","t">>, <<"i","n","t","8">>, <<"i","n","t","1","6">>,
      <<"i","n","t","3","2">>, <<"i","n","t","6","4">>, <<"i","n","t","e","r","f","a","c","e">>, <<"[","]","i","n","t","e","r","f","a","c","e","{","}">>, <<"s","t","r","i","n","g">>,
      <<"[","]","s","t","r","i","n","g">>, <<"t","i","m","e",".","T","i","m","e">>, <<"u","i","n","t">>, <<"u","i","n","t","8">>, <<"u","i","n","t","1","6">>, <<"u","i","n","t","3","2">>,
      <<"u","i","n","t","6","4">> }

isGoBuiltInType(typeName) == typeName \in goBuildinType

genGoFieldType(name) ==
    IF name \in goBuildinType THEN name
    ELSE Once({ (
         IF fieldType /= <<>> THEN <<"*">> \o fieldType ELSE StrIface
         ) : fieldType \in { UpperWords(FieldsFunc(name, Splitters)) } })

\* trimNSPrefix: "ns:local" gives "local"
trimNSPrefix(str) ==
    IF \E i \in 1..Len(str) : str[i] = ":"
    THEN LET i == CHOOSE k \in 1..Len(str) :
                     str[k] = ":" /\ \A j \in 1..(k - 1) : str[j] /= ":"
         IN  SubSeq(str, i + 1, Len(str))
    ELSE str

\* the built-in type registry of the Go target: XSD primitive -> Go type
BuildInTypes ==
    (<<"s","t","r","i","n","g">> :> <<"s","t","r","i","n","g">>) @@ (<<"i","n","t">> :> <<"i","n","t">>) @@ (<<"i","n","t","e","g","e","r">> :> <<"i","n","t">>)
    @@ (<<"b","o","o","l","e","a","n">> :> <<"b","o","o","l">>) @@ (<<"d","e","c","i","m","a","l">> :> <<"f","l","o","a","t","6","4">>)
    @@ (<<"d","a","t","e","T","i","m","e">> :> StrTime)

\* getBuildInTypeByLang(name, "Go"): the Go type, or "" when name is no primitive
getBuildInTypeByLang(name) ==
    IF name \in DOMAIN BuildInTypes THEN BuildInTypes[name] ELSE <<>>

\* index in ProtoTree of the first SimpleType named name, 0 for nil
findSimpleType(tree, name) ==
    Once({ (
    IF hits = {} THEN 0 ELSE CHOOSE i \in hits : \A j \in hits : i <= j
    ) : hits \in { { i \in 1..Len(tree) : tree[i].kind = "SimpleType" /\ tree[i].Name = n }
                   : n \in { trimNSPrefix(name) } } })

findSimpleTypeByGoName(tree, goName) ==
    Once({ (
    IF hits = {} THEN 0 ELSE CHOOSE i \in hits : \A j \in hits : i <= j
    ) : hits \in { { i \in 1..Len(tree) :
                       tree[i].kind = "SimpleType" /\ GoName(tree[i].Name) = goName } } })

\* getBasefromSimpleType: the primitive base at the leaf of the alias chain
RECURSIVE baseFrom(_, _, _)
baseFrom(name, tree, fuel) ==
    Once({ (
    IF getBuildInTypeByLang(local) /= <<>> THEN getBuildInTypeByLang(local)
    ELSE Once({ (
         IF i = 0 \/ fuel = 0 THEN local
         ELSE baseFrom(tree[i].Base, tree, fuel - 1)
         ) : i \in { findSimpleType(tree, local) } })
    ) : local \in { trimNSPrefix(name) } })

getBasefromSimpleType(name, tree) == baseFrom(name, tree, Len(tree))

-----------------------------------------------------------------------------
(* The emitted text: gen.Field is a sequence of chunks.                    *)
(*   type declaration   "type <id> <body>"                                 *)
(*   Validate method    "func (v <recv>) Validate() error { <checks> }"    *)

AliasBody(type) == [form |-> "alias", type |-> type, fields |-> <<>>]
StructBody(fields) == [form |-> "struct", type |-> <<>>, fields |-> fields]

TypeDecl(id, body) == [k |-> "type", id |-> id, body |-> body]

\* a declaration in gen.Field, with the StructAST key it was written for; the
\* key is no part of the text
Declared(key, id, body) == [k |-> "type", key |-> key, id |-> id, body |-> body]

\* one line of a struct body; tag.xml = <<>> for a line without a tag
NoTag == [xml |-> <<>>, validate |-> <<>>]
StructField(name, type, tag) == [name |-> name, type |-> type, tag |-> tag]

\* the XMLName line of a struct whose Go name differs from the XSD name
XMLNameField(name) ==
    StructField(<<"X","M","L","N","a","m","e">>, <<"x","m","l",".","N","a","m","e">>, [xml |-> name, validate |-> <<>>])

\* one check of a Validate method: c names the check, expr the checked value,
\* guard the statement wrapped around it, subject the name in the message,
\* n the bound, lit the quoted pattern literal handed to regexp.MustCompile,
\* vals the quoted keys of the allowed map
Check(c, expr, guard, subject, n, lit, vals) ==
    [c |-> c, expr |-> expr, guard |-> guard, subject |-> subject,
     n |-> n, lit |-> lit, vals |-> vals]

Method(recv, ptr, checks) == [k |-> "method", recv |-> recv, ptr |-> ptr, checks |-> checks]

QuoteAll(vals) == [i \in 1..Len(vals) |-> GoQuote(vals[i])]

\* the checks generateSimpleTypeValidator and generateRestrictionChecks write
\* for a string base
stringChecks(expr, guard, subject, r) ==
    (IF r.HasLength
     THEN << Check("len", expr, guard, subject, r.Length, <<>>, <<>>) >>
     ELSE (IF r.HasMinLength
           THEN << Check("minlen", expr, guard, subject, r.MinLength, <<>>, <<>>) >>
           ELSE <<>>)
          \o (IF r.HasMaxLength
              THEN << Check("maxlen", expr, guard, subject, r.MaxLength, <<>>, <<>>) >>
              ELSE <<>>))
    \o (IF r.PatternStr /= <<>>
        THEN << Check("pattern", expr, guard, subject, 0, GoQuote(r.PatternStr), <<>>) >>
        ELSE <<>>)
    \o (IF Len(r.Enum) > 0
        THEN << Check("enum", expr, guard, subject, 0, <<>>, QuoteAll(r.Enum)) >>
        ELSE <<>>)

\* and for a numeric base
numericChecks(expr, guard, subject, r) ==
    (IF r.HasMin
     THEN << Check(IF r.MinExclusive THEN "gt" ELSE "gte",
                   expr, guard, subject, r.Min, <<>>, <<>>) >>
     ELSE <<>>)
    \o (IF r.HasMax
        THEN << Check(IF r.MaxExclusive THEN "lt" ELSE "lte",
                      expr, guard, subject, r.Max, <<>>, <<>>) >>
        ELSE <<>>)

generateRestrictionChecks(varExpr, guard, base, subjectName, r) ==
    (IF base = StrString THEN stringChecks(varExpr, guard, subjectName, r) ELSE <<>>)
    \o (IF isNumericGoType(base) THEN numericChecks(varExpr, guard, subjectName, r)
        ELSE <<>>)

\* generateSimpleTypeValidator: g is the generator (with fieldNameCount)
generateSimpleTypeValidator(g0, typeName, base, r) ==
    Once({ (
    IF ~hasRestrictions(r) THEN g
    ELSE Once({ (
         [g EXCEPT
            !.ImportRegexp = @ \/ (base = StrString /\ r.PatternStr /= <<>>),
            !.ImportFmt    = @ \/ Len(checks) > 0,
            !.Field        = Append(@, Method(typeName, FALSE, checks))]
         ) : checks \in {
                 (IF base = StrString
                  THEN stringChecks(<<"v">>, "none", typeName, r) ELSE <<>>)
                 \o (IF isNumericGoType(base) /\ (r.HasMin \/ r.HasMax)
                     THEN numericChecks(<<"v">>, "none", typeName, r) ELSE <<>>) } })
    ) : g \in {g0} })

-----------------------------------------------------------------------------
(* Declarations of simple types. *)

CommonTypesFile    == <<"c","o","m","m","o","n","T","y","p","e","s",".","g","o">>
TrainOperationFile == <<"t","r","a","i","n","O","p","e","r","a","t","i","o","n",".","g","o">>

\* gen.StructAST[key] = content; gen.Field += "type <id><content>"
declare(g0, key, id, content) ==
    Once({ (
    [g EXCEPT !.StructAST = (key :> content) @@ @,
              !.Field     = Append(@, Declared(key, id, content))]
    ) : g \in {g0} })

lowerFirst(name) == <<ToLowerChar(name[1])>> \o Tail(name)

\* the SimpleType ensureNamedType looks up: by XSD name, by Go name, by the
\* name with its first letter lower-cased
lookupNamedType(tree, name) ==
    Once({ (
    IF byGo = 0 /\ Len(name) > 0 THEN findSimpleType(tree, lowerFirst(name)) ELSE byGo
    ) : byGo \in { (IF byName = 0 THEN findSimpleTypeByGoName(tree, name) ELSE byName)
                   : byName \in { findSimpleType(tree, name) } } })

\* a variant of synthesizeAlias that declares the string alias for every
\* output file
synthesizeAliasAnyFile(g0, name) ==
    Once({ (
    IF name \in DOMAIN g.StructAST THEN g
    ELSE Once({ (
         declare([g EXCEPT !.fieldNameCount = fn.count],
                 name, fn.fieldName, AliasBody(StrString))
         ) : fn \in { genGoFieldName(g.fieldNameCount, name, TRUE) } })
    ) : g \in {g0} })

\* the alias ensureNamedType synthesizes for a name ProtoTree does not define
synthesizeAlias(g0, name) ==
    Once({ (
    IF Contains(g.File, CommonTypesFile)
    THEN IF name \in DOMAIN g.StructAST THEN g
         ELSE Once({ (
              declare([g EXCEPT !.fieldNameCount = fn.count],
                      name, fn.fieldName,
                      AliasBody(IF HasPrefix(t, <<"*">>) THEN Tail(t) ELSE t))
              ) : fn \in { genGoFieldName(g.fieldNameCount, name, TRUE) },
                  t  \in { genGoFieldType(IF found = name \/ found = <<>>
                                          THEN (IF getBuildInTypeByLang(name) /= <<>>
                                                THEN getBuildInTypeByLang(name)
                                                ELSE StrString)
                                          ELSE found)
                           : found \in { getBasefromSimpleType(name, g.ProtoTree) } } })
    ELSE IF Contains(g.File, TrainOperationFile)
    THEN Once({ (
         IF goName \in { <<"T","S","e","n","d","i","n","g","T","y","p","e">>, <<"T","S","e","n","d","i","n","g","T","y","p","e","S","p","e","c","i","a","l">> }
            /\ goName \notin DOMAIN g.StructAST
         THEN declare(g, goName, goName, AliasBody(StrInt))
         ELSE g
         ) : goName \in { GoName(name) } })
    ELSE g
    ) : g \in {g0} })

ensureNamedType(g0, xsdOrGoName) ==
    Once({ (
    IF name = <<>> THEN g
    ELSE IF getBuildInTypeByLang(name) /= <<>> THEN g
    ELSE Once({ (
         IF i = 0 THEN synthesizeAlias(g, name)
         ELSE LET st == g.ProtoTree[i] IN
              IF st.Name \in DOMAIN g.StructAST THEN g
              ELSE Once({ (
                   generateSimpleTypeValidator(
                       declare([g EXCEPT !.fieldNameCount = fn.count],
                               st.Name, fn.fieldName, AliasBody(genGoFieldType(base))),
                       fn.fieldName, base, st.Restriction)
                   ) : base \in { getBasefromSimpleType(trimNSPrefix(st.Base), g.ProtoTree) },
                       fn   \in { genGoFieldName(g.fieldNameCount, st.Name, TRUE) } })
         ) : i \in { lookupNamedType(g.ProtoTree, name) } })
    ) : g \in {g0}, name \in { trimNSPrefix(xsdOrGoName) } })

\* byte order of the characters of names, for toSortedPairs
AsciiOrder == <<"-", ".">> \o DigitChars \o <<":">> \o UpperChars \o <<"_">> \o LowerChars

Rank(c) == CHOOSE i \in 1..Len(AsciiOrder) : AsciiOrder[i] = c

RECURSIVE StrLess(_, _)
StrLess(a, b) ==
    IF b = <<>> THEN FALSE
    ELSE IF a = <<>> THEN TRUE
    ELSE IF Head(a) = Head(b) THEN StrLess(Tail(a), Tail(b))
    ELSE Rank(Head(a)) < Rank(Head(b))

\* toSortedPairs: the entries of a map, sorted by key
RECURSIVE toSortedPairs(_)
toSortedPairs(m) ==
    IF DOMAIN m = {} THEN <<>>
    ELSE Once({ (
         << [key |-> lo, value |-> m[lo]] >>
         \o toSortedPairs([k \in DOMAIN m \ {lo} |-> m[k]])
         ) : lo \in { CHOOSE k \in DOMAIN m : \A o \in DOMAIN m \ {k} : StrLess(k, o) } })

\* content := " struct {\n", with the XMLName line when the Go name differs
\* from the XSD name; fn is what genGoFieldName(name, true) returned
structStart(g0, fn, name) ==
    Once({ (
    [g |-> [g EXCEPT !.fieldNameCount = fn.count,
                     !.ImportEncodingXML = @ \/ fn.fieldName /= name],
     fields |-> IF fn.fieldName /= name THEN << XMLNameField(name) >> ELSE <<>>]
    ) : g \in {g0} })

\* content += "}\n", and the declaration of the struct
structEnd(s0, name, fieldName) ==
    Once({ (
    declare(s.g, name, fieldName, StructBody(s.fields))
    ) : s \in {s0} })

\* the member loop of a union: ensure each member's type, then its line
RECURSIVE unionMembers(_, _)
unionMembers(s0, pairs) ==
    Once({ (
    IF pairs = <<>> THEN s
    ELSE LET member == Head(pairs)
             memberType == IF member.value = <<>>
                           THEN getBasefromSimpleType(member.key, s.g.ProtoTree)
                           ELSE member.value
         IN  unionMembers(
                 [g |-> ensureNamedType(s.g, member.key),
                  fields |-> Append(s.fields, StructField(GoName(member.key),
                                                          genGoFieldType(memberType), NoTag))],
                 Tail(pairs))
    ) : s \in {s0} })

GoSimpleType(g0, v) ==
    Once({ (
    IF v.List /\ v.Name \notin DOMAIN g.StructAST
    THEN Once({ (
         declare([g EXCEPT !.fieldNameCount = fn.count,
                           !.ImportTime = @ \/ fieldType = StrTime],
                 v.Name, fn.fieldName,
                 AliasBody(<<"[", "]">> \o genGoFieldType(fieldType)))
         ) : fieldType \in { genGoFieldType(
                                 getBasefromSimpleType(trimNSPrefix(v.Base), g.ProtoTree)) },
             fn \in { genGoFieldName(g.fieldNameCount, v.Name, TRUE) } })
    ELSE IF v.Union /\ DOMAIN v.MemberTypes /= {}
    THEN IF v.Name \in DOMAIN g.StructAST THEN g
         ELSE Once({ (
              structEnd(
                  unionMembers(structStart(g, fn, v.Name), toSortedPairs(v.MemberTypes)),
                  v.Name, fn.fieldName)
              ) : fn \in { genGoFieldName(g.fieldNameCount, v.Name, TRUE) } })
    ELSE IF v.Name \in DOMAIN g.StructAST THEN g
    ELSE Once({ (
         generateSimpleTypeValidator(
             declare([g EXCEPT !.fieldNameCount = fn.count],
                     v.Name, fn.fieldName, AliasBody(genGoFieldType(base))),
             fn.fieldName, base, v.Restriction)
         ) : base \in { getBasefromSimpleType(trimNSPrefix(v.Base), g.ProtoTree) },
             fn   \in { genGoFieldName(g.fieldNameCount, v.Name, TRUE) } })
    ) : g \in {g0} })

-----------------------------------------------------------------------------
(* Complex types. *)

RECURSIVE TrimLeft(_)
TrimLeft(s) == IF s /= <<>> /\ Head(s) \in Whitespace THEN TrimLeft(Tail(s)) ELSE s

RECURSIVE TrimRight(_)
TrimRight(s) ==
    IF s /= <<>> /\ s[Len(s)] \in Whitespace THEN TrimRight(SubSeq(s, 1, Len(s) - 1)) ELSE s

\* strings.TrimSpace
TrimSpace(s) == TrimRight(TrimLeft(s))

\* field type selection of an attribute or element f of a complex type:
\* the named simple type of TypeRef when ProtoTree has it, else the resolved type
selectType(tree, f) ==
    Once({ (
    IF i /= 0
    THEN [base      |-> getBasefromSimpleType(trimNSPrefix(tree[i].Base), tree),
          fieldType |-> GoName(tree[i].Name)]
    ELSE Once({ (
         [base |-> resolved, fieldType |-> genGoFieldType(resolved)]
         ) : resolved \in {
               (IF viaRef = <<>>
                THEN getBasefromSimpleType(trimNSPrefix(f.Type), tree)
                ELSE viaRef)
               : viaRef \in {
                   (IF declared = <<>> /\ f.TypeRef /= <<>>
                    THEN (IF getBuildInTypeByLang(trimNSPrefix(f.TypeRef)) /= <<>>
                          THEN getBuildInTypeByLang(trimNSPrefix(f.TypeRef))
                          ELSE getBasefromSimpleType(trimNSPrefix(f.TypeRef), tree))
                    ELSE declared)
                   : declared \in { TrimSpace(f.Type) } } } })
    ) : i \in { findSimpleType(tree, trimNSPrefix(f.TypeRef)) } })

\* a variant of selectRestriction that looks at the inline restriction only
selectRestrictionInline(tree, f, base) == [r |-> f.Restriction, base |-> base]

\* restriction selection: the inline restriction when it has a rule, else the
\* restriction of the simple type named by TypeRef, else of the one named by Type
selectRestriction(tree, f, base) ==
    IF hasRestrictions(f.Restriction) THEN [r |-> f.Restriction, base |-> base]
    ELSE Once({ (
         IF i /= 0
         THEN [r    |-> tree[i].Restriction,
               base |-> getBasefromSimpleType(trimNSPrefix(tree[i].Base), tree)]
         ELSE IF j /= 0
         THEN [r    |-> tree[j].Restriction,
               base |-> getBasefromSimpleType(trimNSPrefix(tree[j].Base), tree)]
         ELSE [r |-> f.Restriction, base |-> base]
         ) : i \in { findSimpleType(tree, trimNSPrefix(f.TypeRef)) },
             j \in { findSimpleType(tree, trimNSPrefix(f.Type)) } })

\* the type written for an attribute of a complex type
attributeFieldType(tree, attribute) ==
    Once({ (
    IF attribute.Optional /\ ~HasPrefix(t, <<"*">>) THEN <<"*">> \o t ELSE t
    ) : t \in { selectType(tree, attribute).fieldType } })

\* the struct line of an attribute of a complex type
attributeField(tree, attribute) ==
    Once({ ( Once({ (
    LET optional == IF attribute.Optional /\ HasPrefix(sel.fieldType, <<"*">>)
                    THEN <<",","o","m","i","t","e","m","p","t","y">> ELSE <<>>
        vtag == buildValidateTag(rs.base, rs.r, attribute.Optional, FALSE)
    IN  StructField(GoName(attribute.Name) \o <<"A","t","t","r">>,
                    attributeFieldType(tree, attribute),
                    [xml |-> attribute.Name \o <<",","a","t","t","r">> \o optional, validate |-> vtag])
    ) : rs \in { selectRestriction(tree, attribute, sel.base) } })
    ) : sel \in { selectType(tree, attribute) } })

\* the type written for an element of a complex type
elementFieldType(tree, element) ==
    Once({ (
    IF element.Optional /\ ~element.Plural /\ ~HasPrefix(plural, <<"*">>)
    THEN <<"*">> \o plural ELSE plural
    ) : plural \in { (IF element.Plural THEN <<"[", "]">> \o t ELSE t)
                     : t \in { selectType(tree, element).fieldType } } })

\* the struct line of an element of a complex type
elementField(tree, element) ==
    Once({ ( Once({ (
    LET optional == IF element.Optional THEN <<",","o","m","i","t","e","m","p","t","y">> ELSE <<>>
        vtag == buildValidateTag(rs.base, rs.r, element.Optional, element.Plural)
    IN  StructField(GoName(element.Name), elementFieldType(tree, element),
                    [xml |-> element.Name \o optional, validate |-> vtag])
    ) : rs \in { selectRestriction(tree, element, sel.base) } })
    ) : sel \in { selectType(tree, element) } })

attrGroupField(tree, attrGroup) ==
    StructField(GoName(attrGroup.Name),
                genGoFieldType(getBasefromSimpleType(trimNSPrefix(attrGroup.Ref), tree)),
                NoTag)

groupField(tree, group) ==
    Once({ (
    StructField(GoName(group.Name), IF group.Plural THEN <<"[", "]">> \o t ELSE t, NoTag)
    ) : t \in { genGoFieldType(getBasefromSimpleType(trimNSPrefix(group.Ref), tree)) } })

RECURSIVE attrGroupLoop(_, _)
attrGroupLoop(s0, groups) ==
    Once({ (
    IF groups = <<>> THEN s
    ELSE LET fieldType == getBasefromSimpleType(trimNSPrefix(Head(groups).Ref),
                                                s.g.ProtoTree)
         IN  attrGroupLoop(
                 [g |-> [s.g EXCEPT !.ImportTime = @ \/ fieldType = StrTime],
                  fields |-> Append(s.fields, attrGroupField(s.g.ProtoTree, Head(groups)))],
                 Tail(groups))
    ) : s \in {s0} })

RECURSIVE attributeLoop(_, _)
attributeLoop(s0, attributes) ==
    Once({ (
    IF attributes = <<>> THEN s
    ELSE Once({ (
         attributeLoop(
             [g |-> [ensureNamedType(ensureNamedType(s.g, attribute.TypeRef),
                                     attribute.Type)
                       EXCEPT !.ImportTime = @ \/ f.type = StrTime],
              fields |-> Append(s.fields, f)],
             Tail(attributes))
         ) : attribute \in { Head(attributes) },
             f \in { attributeField(s.g.ProtoTree, Head(attributes)) } })
    ) : s \in {s0} })

RECURSIVE groupLoop(_, _)
groupLoop(s0, groups) ==
    Once({ (
    IF groups = <<>> THEN s
    ELSE groupLoop([g |-> ensureNamedType(s.g, Head(groups).Ref),
                    fields |-> Append(s.fields, groupField(s.g.ProtoTree, Head(groups)))],
                   Tail(groups))
    ) : s \in {s0} })

RECURSIVE elementLoop(_, _)
elementLoop(s0, elements) ==
    Once({ (
    IF elements = <<>> THEN s
    ELSE Once({ (
         elementLoop(
             [g |-> [ensureNamedType(s.g, element.TypeRef)
                       EXCEPT !.ImportTime = @ \/ f.type = StrTime],
              fields |-> Append(s.fields, f)],
             Tail(elements))
         ) : element \in { Head(elements) },
             f \in { elementField(s.g.ProtoTree, Head(elements)) } })
    ) : s \in {s0} })

\* the Value field or the embedded base type of a complex type with a base
baseField(s0, v) ==
    Once({ (
    IF Len(v.Base) = 0 THEN s
    ELSE IF isGoBuiltInType(v.Base)
    THEN [g |-> s.g,
          fields |-> Append(s.fields,
                            StructField(<<"V","a","l","u","e">>, genGoFieldType(v.Base),
                                        [xml |-> <<",","c","h","a","r","d","a","t","a">>, validate |-> <<>>]))]
    ELSE [g |-> ensureNamedType(s.g, v.Base),
          fields |-> Append(s.fields, StructField(<<>>, genGoFieldType(v.Base), NoTag))]
    ) : s \in {s0} })

\* the checks generateComplexTypeValidator writes for the restricted attributes
RECURSIVE attributeChecks(_, _)
attributeChecks(tree, attributes) ==
    IF attributes = <<>> THEN <<>>
    ELSE Once({ (
         LET base  == getBasefromSimpleType(trimNSPrefix(a.Type), tree)
             guard == IF a.Optional THEN "nil" ELSE "none"
             expr  == IF a.Optional THEN <<"*","m",".">> \o fieldName ELSE <<"m",".">> \o fieldName
         IN  (IF hasRestrictions(a.Restriction)
              THEN << Check("field", expr, guard, fieldName, 0, <<>>, <<>>) >>
                   \o generateRestrictionChecks(expr, guard, base, fieldName, a.Restriction)
              ELSE <<>>)
             \o attributeChecks(tree, Tail(attributes))
         ) : a \in { Head(attributes) },
             fieldName \in { GoName(Head(attributes).Name) \o <<"A","t","t","r">> } })

\* and for the restricted elements
RECURSIVE elementChecks(_, _)
elementChecks(tree, elements) ==
    IF elements = <<>> THEN <<>>
    ELSE Once({ (
         LET base  == getBasefromSimpleType(trimNSPrefix(e.Type), tree)
             guard == IF e.Plural THEN "range" ELSE IF e.Optional THEN "nil" ELSE "none"
             expr  == IF e.Plural THEN <<"i","t">>
                      ELSE IF e.Optional THEN <<"*","m",".">> \o fieldName
                      ELSE <<"m",".">> \o fieldName
         IN  (IF hasRestrictions(e.Restriction)
              THEN << Check("field", expr, guard, fieldName, 0, <<>>, <<>>) >>
                   \o generateRestrictionChecks(expr, guard, base, fieldName, e.Restriction)
              ELSE <<>>)
             \o elementChecks(tree, Tail(elements))
         ) : e \in { Head(elements) },
             fieldName \in { GoName(Head(elements).Name) } })

generateComplexTypeValidator(g0, typeName, v) ==
    Once({ (
    IF ~(\/ \E i \in 1..Len(v.Attributes) : hasRestrictions(v.Attributes[i].Restriction)
         \/ \E i \in 1..Len(v.Elements) : hasRestrictions(v.Elements[i].Restriction))
    THEN g
    ELSE Once({ (
         [g EXCEPT !.ImportFmt    = TRUE,
                   !.ImportRegexp = @ \/ \E i \in 1..Len(checks) :
                                            checks[i].c = "pattern",
                   !.Field        = Append(@, Method(typeName, TRUE, checks))]
         ) : checks \in { attributeChecks(g.ProtoTree, v.Attributes)
                          \o elementChecks(g.ProtoTree, v.Elements) } })
    ) : g \in {g0} })

GoComplexType(g0, v) ==
    Once({ (
    IF v.Name \in DOMAIN g.StructAST THEN g
    ELSE Once({ (
         generateComplexTypeValidator(
             structEnd(
                 baseField(
                     elementLoop(
                         groupLoop(
                             attributeLoop(
                                 attrGroupLoop(structStart(g, fn, v.Name), v.AttributeGroup),
                                 v.Attributes),
                             v.Groups),
                         v.Elements),
                     v),
                 v.Name, fn.fieldName),
             fn.fieldName, v)
         ) : fn \in { genGoFieldName(g.fieldNameCount, v.Name, TRUE) } })
    ) : g \in {g0} })

-----------------------------------------------------------------------------
(* Groups, attribute groups, top-level elements and attributes. *)

RECURSIVE groupElementLoop(_, _)
groupElementLoop(s0, elements) ==
    Once({ (
    IF elements = <<>> THEN s
    ELSE Once({ (
         groupElementLoop(
             [g |-> ensureNamedType(ensureNamedType(s.g, element.TypeRef), element.Type),
              fields |-> Append(s.fields,
                                StructField(GoName(element.Name),
                                            IF element.Plural THEN <<"[", "]">> \o t ELSE t,
                                            NoTag))],
             Tail(elements))
         ) : element \in { Head(elements) },
             t \in { genGoFieldType(getBasefromSimpleType(trimNSPrefix(Head(elements).Type),
                                                          s.g.ProtoTree)) } })
    ) : s \in {s0} })

RECURSIVE groupGroupLoop(_, _)
groupGroupLoop(s0, groups) ==
    Once({ (
    IF groups = <<>> THEN s
    ELSE groupGroupLoop([g |-> s.g,
                         fields |-> Append(s.fields, groupField(s.g.ProtoTree, Head(groups)))],
                        Tail(groups))
    ) : s \in {s0} })

GoGroup(g0, v) ==
    Once({ (
    IF v.Name \in DOMAIN g.StructAST THEN g
    ELSE Once({ (
         structEnd(
             groupGroupLoop(groupElementLoop(structStart(g, fn, v.Name), v.Elements),
                            v.Groups),
             v.Name, fn.fieldName)
         ) : fn \in { genGoFieldName(g.fieldNameCount, v.Name, TRUE) } })
    ) : g \in {g0} })

\* the struct line of an attribute of an attribute group
groupAttributeField(tree, attribute) ==
    Once({ (
    LET optional == IF attribute.Optional THEN <<",","o","m","i","t","e","m","p","t","y">> ELSE <<>>
        vtag == buildValidateTag(rs.base, rs.r, attribute.Optional, FALSE)
    IN  StructField(GoName(attribute.Name) \o <<"A","t","t","r">>, genGoFieldType(rs.base),
                    [xml |-> attribute.Name \o <<",","a","t","t","r">> \o optional, validate |-> vtag])
    ) : rs \in { selectRestriction(
                     tree, attribute,
                     getBasefromSimpleType(trimNSPrefix(attribute.Type), tree)) } })

RECURSIVE groupAttributeLoop(_, _)
groupAttributeLoop(s0, attributes) ==
    Once({ (
    IF attributes = <<>> THEN s
    ELSE LET attribute == Head(attributes) IN
         groupAttributeLoop(
             [g |-> ensureNamedType(ensureNamedType(s.g, attribute.TypeRef), attribute.Type),
              fields |-> Append(s.fields, groupAttributeField(s.g.ProtoTree, attribute))],
             Tail(attributes))
    ) : s \in {s0} })

GoAttributeGroup(g0, v) ==
    Once({ (
    IF v.Name \in DOMAIN g.StructAST THEN g
    ELSE Once({ (
         structEnd(groupAttributeLoop(structStart(g, fn, v.Name), v.Attributes),
                   v.Name, fn.fieldName)
         ) : fn \in { genGoFieldName(g.fieldNameCount, v.Name, TRUE) } })
    ) : g \in {g0} })

\* the content of a top-level element or attribute
plainContent(tree, v) ==
    Once({ (
    AliasBody(IF v.Plural THEN <<"[", "]">> \o t ELSE t)
    ) : t \in { genGoFieldType(getBasefromSimpleType(trimNSPrefix(v.Type), tree)) } })

GoElement(g0, v) ==
    Once({ (
    IF v.Name \in DOMAIN g.StructAST THEN g
    ELSE declare(g, v.Name, GoName(v.Name), plainContent(g.ProtoTree, v))
    ) : g \in {g0} })

GoAttribute(g0, v) ==
    Once({ (
    IF v.Name \in DOMAIN g.StructAST THEN g
    ELSE Once({ (
         declare([g EXCEPT !.fieldNameCount = fn.count], v.Name, fn.fieldName,
                 plainContent(g.ProtoTree, v))
         ) : fn \in { genGoFieldName(g.fieldNameCount, v.Name, TRUE) } })
    ) : g \in {g0} })

\* callFuncByName(gen, "Go" + the entry's type name, entry)
callFuncByName(g0, ele) ==
    Once({ (
    CASE ele.kind = "SimpleType"     -> GoSimpleType(g, ele)
      [] ele.kind = "ComplexType"    -> GoComplexType(g, ele)
      [] ele.kind = "Group"          -> GoGroup(g, ele)
      [] ele.kind = "AttributeGroup" -> GoAttributeGroup(g, ele)
      [] ele.kind = "Element"        -> GoElement(g, ele)
      [] ele.kind = "Attribute"      -> GoAttribute(g, ele)
    ) : g \in {g0} })

-----------------------------------------------------------------------------
(* The safety net of the shared types file. *)

IsIdentChar(c) == c = "_" \/ IsDigit(c) \/ IsUpper(c) \/ IsLower(c)

\* strings.FieldsFunc(text, sep), as a set
RECURSIVE TokensFrom(_, _)
TokensFrom(s, cur) ==
    IF s = <<>> THEN (IF cur = <<>> THEN {} ELSE {cur})
    ELSE IF IsIdentChar(Head(s)) THEN TokensFrom(Tail(s), Append(cur, Head(s)))
    ELSE (IF cur = <<>> THEN {} ELSE {cur}) \cup TokensFrom(Tail(s), <<>>)

Tokens(s) == TokensFrom(s, <<>>)

\* the strings a chunk of gen.Field is formatted from; in the text they are
\* separated by characters that are no identifier characters
ChunkStrings(chunk) ==
    IF chunk.k = "type"
    THEN {chunk.id, chunk.body.type}
         \cup UNION { {f.name, f.type, f.tag.xml, f.tag.validate} :
                        f \in { chunk.body.fields[i] : i \in 1..Len(chunk.body.fields) } }
    ELSE {chunk.recv}
         \cup UNION { {c.expr, c.subject, c.lit} \cup { c.vals[i] : i \in 1..Len(c.vals) } :
                        c \in { chunk.checks[i] : i \in 1..Len(chunk.checks) } }

FieldTokens(field) ==
    UNION { Tokens(s) : s \in UNION { ChunkStrings(field[i]) : i \in 1..Len(field) } }

\* the tokens that look like a generated type name: T, an upper-case letter, ...
candidateTypes(field) ==
    { tok \in FieldTokens(field) : Len(tok) >= 2 /\ tok[1] = "T" /\ IsUpper(tok[2]) }

\* the names ensureReferencedTypesDeclared takes as declared
declaredNames(g) == DOMAIN g.StructAST \cup { GoName(k) : k \in DOMAIN g.StructAST }

\* the candidates it declares
missingTypes(g) ==
    { name \in candidateTypes(g.Field) :
        /\ name \notin declaredNames(g)
        /\ lowerFirst(name) \notin declaredNames(g)
        /\ name \notin goBuildinType }

\* the body of its last loop, for the names in the order the map yields them
RECURSIVE declareMissing(_, _)
declareMissing(g0, names) ==
    Once({ (
    IF names = <<>> THEN g
    ELSE Once({ (
         declareMissing(
             declare([g EXCEPT !.fieldNameCount = fn.count],
                     Head(names), fn.fieldName, AliasBody(StrString)),
             Tail(names))
         ) : fn \in { genGoFieldName(g.fieldNameCount, Head(names), TRUE) } })
    ) : g \in {g0} })

\* the orders in which a range over a map with these keys can yield them
MapOrders(keys) ==
    { s \in [1..Cardinality(keys) -> keys] :
        \A i, j \in 1..Cardinality(keys) : i /= j => s[i] /= s[j] }

ensureReferencedTypesDeclared(g, order) == declareMissing(g, order)

-----------------------------------------------------------------------------
(* GenGo. *)

\* the generator together with the package-level fieldNameCount, as the
\* emitting operators above take and return it
Pack(gn, count) ==
    [File |-> gn.File, Package |-> gn.Package, ProtoTree |-> gn.ProtoTree,
     Field |-> gn.Field, StructAST |-> gn.StructAST,
     ImportTime |-> gn.ImportTime, ImportEncodingXML |-> gn.ImportEncodingXML,
     ImportFmt |-> gn.ImportFmt, ImportRegexp |-> gn.ImportRegexp,
     fieldNameCount |-> count]

Unpack(g) ==
    [File |-> g.File, Package |-> g.Package, ProtoTree |-> g.ProtoTree,
     Field |-> g.Field, StructAST |-> g.StructAST,
     ImportTime |-> g.ImportTime, ImportEncodingXML |-> g.ImportEncodingXML,
     ImportFmt |-> g.ImportFmt, ImportRegexp |-> g.ImportRegexp]

EmptyAST == [n \in {} |-> AliasBody(<<>>)]

\* a CodeGenerator as the command line tool constructs it
NewGenerator(file, package, tree) ==
    [File |-> file, Package |-> package, ProtoTree |-> tree,
     Field |-> <<>>, StructAST |-> EmptyAST,
     ImportTime |-> FALSE, ImportEncodingXML |-> FALSE,
     ImportFmt |-> FALSE, ImportRegexp |-> FALSE]

isNamedSimpleType(ele) == ele.kind = "SimpleType" /\ ele.Name /= <<>>

\* a first pass that emits nothing
firstPassSkipped(g0, i) == g0

\* first pass: the named simple types
RECURSIVE firstPass(_, _)
firstPass(g0, i) ==
    Once({ (
    IF i > Len(g.ProtoTree) THEN g
    ELSE firstPass(IF isNamedSimpleType(g.ProtoTree[i])
                   THEN GoSimpleType(g, g.ProtoTree[i]) ELSE g, i + 1)
    ) : g \in {g0} })

\* second pass: every entry, by its type
RECURSIVE secondPass(_, _)
secondPass(g0, i) ==
    Once({ (
    IF i > Len(g.ProtoTree) THEN g
    ELSE secondPass(callFuncByName(g, g.ProtoTree[i]), i + 1)
    ) : g \in {g0} })

\* final sweep: the named simple types not emitted yet
RECURSIVE finalSweep(_, _)
finalSweep(g0, i) ==
    Once({ (
    IF i > Len(g.ProtoTree) THEN g
    ELSE finalSweep(IF isNamedSimpleType(g.ProtoTree[i])
                       /\ g.ProtoTree[i].Name \notin DOMAIN g.StructAST
                    THEN GoSimpleType(g, g.ProtoTree[i]) ELSE g, i + 1)
    ) : g \in {g0} })

\* the packages of the import block, in the order written
importPackages(gn) ==
    (IF gn.ImportTime THEN << <<"t","i","m","e">> >> ELSE <<>>)
    \o (IF gn.ImportEncodingXML THEN << <<"e","n","c","o","d","i","n","g","/","x","m","l">> >> ELSE <<>>)
    \o (IF gn.ImportFmt THEN << <<"f","m","t">> >> ELSE <<>>)
    \o (IF gn.ImportRegexp THEN << <<"r","e","g","e","x","p">> >> ELSE <<>>)

packageName(gn) == IF gn.Package = <<>> THEN <<"s","c","h","e","m","a">> ELSE gn.Package

\* the name of the output file
FileWithExtension(file, extension) ==
    LET ext == IF HasPrefix(extension, <<".">>) THEN extension ELSE <<".">> \o extension IN
    IF HasSuffix(file, ext) THEN file ELSE file \o ext

\* the output file: absent, or holding what was written to it
NoFile ==
    [exists |-> FALSE, name |-> <<>>, complete |-> FALSE, formatted |-> FALSE,
     package |-> <<>>, imports |-> <<>>, field |-> <<>>]

EmptyFile(name) == [NoFile EXCEPT !.exists = TRUE, !.name = name]

\* the text with the import block left out of what is written when the
\* formatter rejects it
sourceTextBare(gn, formatted) ==
    [exists |-> TRUE, name |-> FileWithExtension(gn.File, <<".","g","o">>),
     complete |-> TRUE, formatted |-> formatted,
     package |-> packageName(gn),
     imports |-> IF formatted THEN importPackages(gn) ELSE <<>>,
     field |-> [i \in 1..Len(gn.Field) |->
                  IF gn.Field[i].k = "type"
                  THEN TypeDecl(gn.Field[i].id, gn.Field[i].body) ELSE gn.Field[i]]]

\* the text GenGo builds, formatted by format.Source (with the copyright
\* header) or as written when the formatter rejects it (without)
sourceText(gn, formatted) ==
    [exists |-> TRUE, name |-> FileWithExtension(gn.File, <<".","g","o">>),
     complete |-> TRUE, formatted |-> formatted,
     package |-> packageName(gn), imports |-> importPackages(gn),
     field |-> [i \in 1..Len(gn.Field) |->
                  IF gn.Field[i].k = "type"
                  THEN TypeDecl(gn.Field[i].id, gn.Field[i].body) ELSE gn.Field[i]]]

PhaseA ==
    /\ pc = "A"
    /\ \E g \in { firstPass(Pack(gen, EmptyCount), 1) } :
         /\ gen' = Unpack(g)
         /\ fieldNameCount' = g.fieldNameCount
    /\ pc' = "B"
    /\ UNCHANGED <<output, err, run, firstOutput, tagVars, parseVars>>

PhaseB ==
    /\ pc = "B"
    /\ \E g \in { secondPass(Pack(gen, fieldNameCount), 1) } :
         /\ gen' = Unpack(g)
         /\ fieldNameCount' = g.fieldNameCount
    /\ pc' = "C"
    /\ UNCHANGED <<output, err, run, firstOutput, tagVars, parseVars>>

PhaseC ==
    /\ pc = "C"
    /\ \E g \in { finalSweep(Pack(gen, fieldNameCount), 1) } :
         /\ gen' = Unpack(g)
         /\ fieldNameCount' = g.fieldNameCount
    /\ pc' = "D"
    /\ UNCHANGED <<output, err, run, firstOutput, tagVars, parseVars>>

\* the safety net; the range over the candidates map yields them in any order
PhaseD ==
    /\ pc = "D"
    /\ IF Contains(gen.File, CommonTypesFile)
       THEN \E order \in MapOrders(missingTypes(Pack(gen, fieldNameCount))) :
              \E g \in { ensureReferencedTypesDeclared(Pack(gen, fieldNameCount), order) } :
                /\ gen' = Unpack(g)
                /\ fieldNameCount' = g.fieldNameCount
       ELSE UNCHANGED <<gen, fieldNameCount>>
    /\ pc' = "create"
    /\ UNCHANGED <<output, err, run, firstOutput, tagVars, parseVars>>

\* os.Create: it fails, or leaves an empty file
CreateFile ==
    /\ pc = "create"
    /\ \E ok \in BOOLEAN :
         IF ok THEN /\ output' = EmptyFile(FileWithExtension(gen.File, <<".","g","o">>))
                    /\ err' = "none"
                    /\ pc' = "format"
         ELSE /\ output' = output
              /\ err' = "create"
              /\ pc' = "done"
    /\ UNCHANGED <<gen, fieldNameCount, run, firstOutput, tagVars, parseVars>>

\* format.Source accepts the text or rejects it; the write succeeds or fails,
\* and its result is not looked at
WriteFile ==
    /\ pc = "format"
    /\ \E formatted \in BOOLEAN, written \in BOOLEAN :
         /\ output' = IF written THEN sourceText(gen, formatted) ELSE output
         /\ err' = IF formatted THEN "none" ELSE "format"
    /\ pc' = "done"
    /\ UNCHANGED <<gen, fieldNameCount, run, firstOutput, tagVars, parseVars>>

\* the tool is run again on the same schema, output file name and package
Rerun ==
    /\ pc = "done"
    /\ run = 1
    /\ firstOutput' = [output |-> output, err |-> err]
    /\ gen' = NewGenerator(gen.File, gen.Package, gen.ProtoTree)
    /\ run' = 2
    /\ pc' = "A"
    /\ err' = "none"
    /\ UNCHANGED <<output, fieldNameCount, tagVars, parseVars>>

-----------------------------------------------------------------------------
(* The schemas GenGo is run on: what the parser leaves in ProtoTree. *)

EmptyMembers == [n \in {} |-> <<>>]

SimpleType(name, base, r) ==
    [kind |-> "SimpleType", Name |-> name, Base |-> base, List |-> FALSE,
     Union |-> FALSE, MemberTypes |-> EmptyMembers, Restriction |-> r]

\* an attribute or element, as parsed from name= and type=, before its Type
\* is resolved
Member(kind, name, typeRef, optional, plural, r) ==
    [kind |-> kind, Name |-> name, Type |-> <<>>, TypeRef |-> typeRef,
     Optional |-> optional, Plural |-> plural, Restriction |-> r]

\* an attribute or element with an inline simple type: its Type is the base
\* of the inline restriction
Inline(kind, name, base, optional, plural, r) ==
    [kind |-> kind, Name |-> name, Type |-> base, TypeRef |-> <<>>,
     Optional |-> optional, Plural |-> plural, Restriction |-> r]

AttributeGroup(name, attributes) ==
    [kind |-> "AttributeGroup", Name |-> name, Ref |-> <<>>, Attributes |-> attributes]

AttributeGroupRef(ref) == [kind |-> "AttributeGroup", Name |-> ref, Ref |-> ref, Attributes |-> <<>>]

ComplexType(name, attrGroups, attributes, elements) ==
    [kind |-> "ComplexType", Name |-> name, Base |-> <<>>,
     AttributeGroup |-> attrGroups, Attributes |-> attributes,
     Groups |-> <<>>, Elements |-> elements]

\* GetValueType: the type the parser stores for a type= attribute, resolved
\* against the entries parsed so far
GetValueType(name, tree) == getBasefromSimpleType(trimNSPrefix(name), tree)

\* OnAttribute, OnElement: Type of a member with a type= attribute
linkMember(m, tree) ==
    IF m.TypeRef = <<>> THEN m ELSE [m EXCEPT !.Type = GetValueType(m.TypeRef, tree)]

linkMembers(ms, tree) == [i \in 1..Len(ms) |-> linkMember(ms[i], tree)]

linkEntry(e, tree) ==
    CASE e.kind = "ComplexType" ->
           [e EXCEPT !.Attributes = linkMembers(@, tree), !.Elements = linkMembers(@, tree)]
      [] e.kind = "AttributeGroup" -> [e EXCEPT !.Attributes = linkMembers(@, tree)]
      [] e.kind \in {"Element", "Attribute"} -> linkMember(e, tree)
      [] OTHER -> e

\* the ProtoTree of a schema whose top-level components are es, in order
RECURSIVE parse(_, _)
parse(es, tree0) ==
    Once({ (
    IF es = <<>> THEN tree
    ELSE parse(Tail(es), Append(tree, linkEntry(Head(es), tree)))
    ) : tree \in {tree0} })

PatternDigit == [NoRestriction EXCEPT !.PatternStr = << "\\", "d" >>]

EnumSpaced ==
    [NoRestriction EXCEPT !.Enum = << <<"A"," ","B">>, <<"C">> >>, !.HasLength = TRUE, !.Length = 2]

Range == [NoRestriction EXCEPT !.HasMin = TRUE, !.Min = 0, !.HasMax = TRUE, !.Max = 9]

EnumOnly == [NoRestriction EXCEPT !.Enum = << <<"1">>, <<"2">> >>]

InlinePattern == [NoRestriction EXCEPT !.PatternStr = <<"a">>, !.HasMinLength = TRUE, !.MinLength = 1]

MinLengthOne == [NoRestriction EXCEPT !.HasMinLength = TRUE, !.MinLength = 1]

\* a list of strings, and a union with the member string
ListType(name, base, r) == [SimpleType(name, base, r) EXCEPT !.List = TRUE]

UnionType(name, members, r) ==
    [SimpleType(name, <<>>, r) EXCEPT !.Union = TRUE, !.MemberTypes = members]

\* the top-level components the schemas are made of
Catalog ==
    { SimpleType(<<"t","A">>, StrString, PatternDigit),
      SimpleType(<<"t","E">>, StrString, NoRestriction),
      SimpleType(<<>>, StrString, NoRestriction),
      ListType(<<"t","L">>, StrString, MinLengthOne),
      UnionType(<<"t","U">>, (StrString :> StrString), EnumOnly),
      UnionType(<<"t","V">>, (<<"t","L">> :> <<>>) @@ (<<"t","E">> :> <<>>), NoRestriction),
      SimpleType(<<"t","_","a">>, StrString, EnumSpaced),
      SimpleType(<<"t","B">>, StrInt, Range),
      SimpleType(<<"t","C">>, StrInt, EnumOnly),
      Member("Element", <<"T","A">>, <<"t","B">>, FALSE, FALSE, NoRestriction),
      ComplexType(<<"c","1">>, <<>>,
          << Member("Attribute", <<"a","1">>, <<"x",":","t","A">>, TRUE, FALSE, NoRestriction),
             Member("Attribute", <<"a","2">>, <<"t","_","a">>, FALSE, TRUE, NoRestriction) >>,
          << Member("Element", <<"e","1">>, <<"t","B">>, TRUE, FALSE, NoRestriction),
             Member("Element", <<"e","2">>, <<"t","C">>, TRUE, TRUE, NoRestriction),
             Member("Element", <<"e","3">>, <<"t","_","a">>, FALSE, FALSE, NoRestriction),
             Member("Element", <<"e","4">>, <<"t","C">>, FALSE, FALSE, NoRestriction) >>),
      ComplexType(<<"c","2">>, << AttributeGroupRef(<<"T","G","a">>), AttributeGroupRef(<<"T","G","b">>) >>,
          <<>>,
          << Member("Element", <<"s","1">>, <<"t","S","e","n","d","i","n","g","T","y","p","e">>, TRUE, FALSE, NoRestriction),
             Inline("Element", <<"s","2">>, StrString, FALSE, TRUE, InlinePattern) >>),
      ComplexType(<<"c","3">>, <<>>,
          << Member("Attribute", <<"d","1">>, <<"x","s",":","d","a","t","e","T","i","m","e">>, FALSE, FALSE, NoRestriction) >>,
          << Inline("Element", <<"n","1">>, StrInt, FALSE, FALSE, PatternDigit),
             Inline("Element", <<"n","2">>, <<"t","B">>, FALSE, FALSE, NoRestriction),
             Member("Element", <<"n","3">>, <<"t","A">>, FALSE, FALSE, MinLengthOne),
             Inline("Element", <<"n","4">>, <<"t","B">>, FALSE, FALSE, Range) >>),
      AttributeGroup(<<"g","A">>,
          << Member("Attribute", <<"b","1">>, <<"x",":","t","A">>, TRUE, FALSE, NoRestriction),
             Inline("Attribute", <<"b","2">>, StrString, FALSE, FALSE, InlinePattern),
             Inline("Attribute", <<"b","3">>, <<"t","B">>, FALSE, FALSE, NoRestriction),
             Member("Attribute", <<"b","4">>, <<"t","A">>, FALSE, FALSE, MinLengthOne) >>) }

\* bound on the number of top-level components of a schema
MaxTree == 3

Schemas ==
    { es \in SeqsUpTo(Catalog, MaxTree) : \A i, j \in 1..Len(es) : i /= j => es[i] /= es[j] }

Files == { <<"o","u","t","/","c","o","m","m","o","n","T","y","p","e","s",".","g","o">>, <<"o","u","t","/","t","r","a","i","n","O","p","e","r","a","t","i","o","n",".","g","o">>, <<"o","u","t","/","s","c","h","e","m","a">> }

Packages == { <<"s","c","h","e","m","a">> }

GenInit ==
    /\ gen \in { NewGenerator(f, p, parse(es, <<>>)) :
                   f \in Files, p \in Packages, es \in Schemas }
    /\ fieldNameCount = EmptyCount
    /\ pc = "A"
    /\ output = NoFile
    /\ err = "none"
    /\ run = 1
    /\ firstOutput = [output |-> NoFile, err |-> "none"]

-----------------------------------------------------------------------------
(* The parser: the handlers of the simpleType, restriction and facet       *)
(* events (src/xmlSimpleType.go, src/xmlRestriction.go, the facet files),  *)
(* and those of element and attribute.  A stack is a sequence, its top the *)
(* last entry.                                                             *)

\* Options as the parser starts with it
NewOptions ==
    [SimpleType |-> <<>>, ComplexType |-> <<>>, Element |-> <<>>, Attribute |-> <<>>,
     ProtoTree |-> <<>>, CurrentEle |-> <<>>, InElement |-> <<>>, InUnion |-> FALSE]

\* Stack.Peek, on a stack that is not empty
Peek(stack) == stack[Len(stack)]

\* Stack.Pop: the stack without its top
Pop(stack) == SubSeq(stack, 1, Len(stack) - 1)

\* the stack with its top replaced
SetTop(stack, top) == [stack EXCEPT ![Len(stack)] = top]

\* the XML attribute named name of a start element, <<>> when it has none
NoAttrs == [n \in {} |-> <<>>]

HasAttr(attrs, name) == name \in DOMAIN attrs

\* OnSimpleType
OnSimpleType(o, attrs) ==
    IF HasAttr(attrs, "name")
    THEN [o EXCEPT !.SimpleType = Append(@, SimpleType(attrs["name"], <<>>, NoRestriction)),
                   !.CurrentEle = o.InElement]
    ELSE [o EXCEPT !.SimpleType = Append(@, SimpleType(<<>>, <<>>, NoRestriction))]

\* EndSimpleType without its Element case: an anonymous entry under an open
\* Element goes on to the last case
EndSimpleTypeNoElementCase(o) ==
    IF Len(o.SimpleType) = 0 THEN o
    ELSE IF Len(o.Attribute) > 0 /\ Peek(o.SimpleType).Name = <<>>
    THEN [o EXCEPT !.Attribute  = SetTop(@, [Peek(@) EXCEPT !.Type = Peek(o.SimpleType).Base]),
                   !.SimpleType = Pop(@)]
    ELSE IF ~o.InUnion
    THEN [o EXCEPT !.ProtoTree  = Append(@, Peek(o.SimpleType)),
                   !.SimpleType = Pop(@),
                   !.CurrentEle = <<>>]
    ELSE o

\* EndSimpleType
EndSimpleType(o) ==
    IF Len(o.SimpleType) = 0 THEN o
    ELSE IF Len(o.Attribute) > 0 /\ Peek(o.SimpleType).Name = <<>>
    THEN [o EXCEPT !.Attribute  = SetTop(@, [Peek(@) EXCEPT !.Type = Peek(o.SimpleType).Base]),
                   !.SimpleType = Pop(@)]
    ELSE IF Len(o.Element) > 0 /\ Peek(o.SimpleType).Name = <<>>
    THEN [o EXCEPT !.Element    = SetTop(@, [Peek(@) EXCEPT !.Type = Peek(o.SimpleType).Base]),
                   !.SimpleType = Pop(@)]
    ELSE IF ~o.InUnion
    THEN [o EXCEPT !.ProtoTree  = Append(@, Peek(o.SimpleType)),
                   !.SimpleType = Pop(@),
                   !.CurrentEle = <<>>]
    ELSE o

\* OnRestriction
OnRestriction(o, attrs) ==
    IF HasAttr(attrs, "base") /\ Len(o.SimpleType) > 0
    THEN [o EXCEPT !.SimpleType =
              SetTop(@, [Peek(@) EXCEPT !.Base = GetValueType(attrs["base"], o.ProtoTree)])]
    ELSE o

\* EndRestriction taking the SimpleType off the stack in every case
EndRestrictionPopsAlways(o) ==
    IF Len(o.SimpleType) = 0 THEN o
    ELSE IF Len(o.Attribute) > 0
    THEN [o EXCEPT !.SimpleType = Pop(@),
                   !.Attribute  =
                       SetTop(@, [Peek(@) EXCEPT
                                    !.Type = GetValueType(Peek(o.SimpleType).Base, o.ProtoTree),
                                    !.Restriction = Peek(o.SimpleType).Restriction]),
                   !.CurrentEle = <<>>]
    ELSE IF Len(o.Element) > 0
    THEN Once({ (
         [o EXCEPT !.SimpleType  = Pop(@),
                   !.Element     = SetTop(@, ele),
                   !.CurrentEle  = <<>>,
                   !.ComplexType =
                       IF Len(@) > 0 /\ Len(Peek(@).Elements) > 0
                       THEN SetTop(@, [Peek(@) EXCEPT !.Elements = SetTop(@, ele)])
                       ELSE @]
         ) : ele \in { [Peek(o.Element) EXCEPT
                          !.Type = GetValueType(Peek(o.SimpleType).Base, o.ProtoTree),
                          !.Restriction = Peek(o.SimpleType).Restriction] } })
    ELSE [o EXCEPT !.SimpleType = Pop(@)]

\* EndRestriction
EndRestriction(o) ==
    IF Len(o.SimpleType) = 0 THEN o
    ELSE IF Len(o.Attribute) > 0
    THEN [o EXCEPT !.SimpleType = Pop(@),
                   !.Attribute  =
                       SetTop(@, [Peek(@) EXCEPT
                                    !.Type = GetValueType(Peek(o.SimpleType).Base, o.ProtoTree),
                                    !.Restriction = Peek(o.SimpleType).Restriction]),
                   !.CurrentEle = <<>>]
    ELSE IF Len(o.Element) > 0
    THEN Once({ (
         [o EXCEPT !.SimpleType  = Pop(@),
                   !.Element     = SetTop(@, ele),
                   !.CurrentEle  = <<>>,
                   !.ComplexType =
                       IF Len(@) > 0 /\ Len(Peek(@).Elements) > 0
                       THEN SetTop(@, [Peek(@) EXCEPT !.Elements = SetTop(@, ele)])
                       ELSE @]
         ) : ele \in { [Peek(o.Element) EXCEPT
                          !.Type = GetValueType(Peek(o.SimpleType).Base, o.ProtoTree),
                          !.Restriction = Peek(o.SimpleType).Restriction] } })
    ELSE o

\* the number a sequence of digits denotes
RECURSIVE DigitsValue(_)
DigitsValue(s) ==
    IF s = <<>> THEN 0
    ELSE 10 * DigitsValue(SubSeq(s, 1, Len(s) - 1))
         + (CHOOSE d \in 0..9 : DigitChars[d + 1] = s[Len(s)])

AllDigits(s) == s /= <<>> /\ \A i \in 1..Len(s) : IsDigit(s[i])

\* without a leading sign
Unsigned(s) == IF s /= <<>> /\ Head(s) \in {"+", "-"} THEN Tail(s) ELSE s

Signed(s, n) == IF s /= <<>> /\ Head(s) = "-" THEN 0 - n ELSE n

\* strconv.Atoi: ok is e == nil
Atoi(s) ==
    IF AllDigits(Unsigned(s))
    THEN [ok |-> TRUE, v |-> Signed(s, DigitsValue(Unsigned(s)))]
    ELSE [ok |-> FALSE, v |-> 0]

RECURSIVE Pow10(_)
Pow10(n) == IF n = 0 THEN 1 ELSE 10 * Pow10(n - 1)

\* strconv.ParseFloat(s, 64) on decimal literals with an integral value:
\* digits, or digits with an exponent
ParseFloat(s) ==
    Once({ (
    IF AllDigits(body) THEN [ok |-> TRUE, v |-> Signed(s, DigitsValue(body))]
    ELSE IF \E i \in 2..(Len(body) - 1) :
               /\ body[i] \in {"e", "E"}
               /\ AllDigits(SubSeq(body, 1, i - 1))
               /\ AllDigits(SubSeq(body, i + 1, Len(body)))
    THEN Once({ (
         [ok |-> TRUE,
          v  |-> Signed(s, DigitsValue(SubSeq(body, 1, i - 1))
                             * Pow10(DigitsValue(SubSeq(body, i + 1, Len(body)))))]
         ) : i \in { CHOOSE k \in 2..(Len(body) - 1) : body[k] \in {"e", "E"} } })
    ELSE [ok |-> FALSE, v |-> 0]
    ) : body \in { Unsigned(s) } })

\* the restriction of the top SimpleType replaced
SetRestriction(o, r) ==
    [o EXCEPT !.SimpleType = SetTop(@, [Peek(@) EXCEPT !.Restriction = r])]

\* OnMinLength
OnMinLength(o, attrs) ==
    IF HasAttr(attrs, "value") /\ Len(o.SimpleType) > 0 /\ Atoi(attrs["value"]).ok
    THEN SetRestriction(o, [Peek(o.SimpleType).Restriction EXCEPT
                              !.MinLength = Atoi(attrs["value"]).v,
                              !.HasMinLength = TRUE])
    ELSE o

\* OnMaxLength
OnMaxLength(o, attrs) ==
    IF HasAttr(attrs, "value") /\ Len(o.SimpleType) > 0 /\ Atoi(attrs["value"]).ok
    THEN SetRestriction(o, [Peek(o.SimpleType).Restriction EXCEPT
                              !.MaxLength = Atoi(attrs["value"]).v,
                              !.HasMaxLength = TRUE])
    ELSE o

\* OnMinInclusive with the flags written before the value is parsed
OnMinInclusiveFlagsFirst(o, attrs) ==
    IF HasAttr(attrs, "value") /\ Len(o.SimpleType) > 0
    THEN SetRestriction(o, [Peek(o.SimpleType).Restriction EXCEPT
                              !.Min = IF ParseFloat(attrs["value"]).ok
                                      THEN ParseFloat(attrs["value"]).v ELSE @,
                              !.HasMin = ParseFloat(attrs["value"]).ok,
                              !.MinExclusive = FALSE])
    ELSE o

\* OnMinInclusive
OnMinInclusive(o, attrs) ==
    IF HasAttr(attrs, "value") /\ Len(o.SimpleType) > 0 /\ ParseFloat(attrs["value"]).ok
    THEN SetRestriction(o, [Peek(o.SimpleType).Restriction EXCEPT
                              !.Min = ParseFloat(attrs["value"]).v,
                              !.HasMin = TRUE,
                              !.MinExclusive = FALSE])
    ELSE o

\* OnMaxInclusive
OnMaxInclusive(o, attrs) ==
    IF HasAttr(attrs, "value") /\ Len(o.SimpleType) > 0 /\ ParseFloat(attrs["value"]).ok
    THEN SetRestriction(o, [Peek(o.SimpleType).Restriction EXCEPT
                              !.Max = ParseFloat(attrs["value"]).v,
                              !.HasMax = TRUE,
                              !.MaxExclusive = FALSE])
    ELSE o

\* OnMinExclusive: as OnMinInclusive, with MinExclusive set
OnMinExclusive(o, attrs) ==
    IF HasAttr(attrs, "value") /\ Len(o.SimpleType) > 0 /\ ParseFloat(attrs["value"]).ok
    THEN SetRestriction(o, [Peek(o.SimpleType).Restriction EXCEPT
                              !.Min = ParseFloat(attrs["value"]).v,
                              !.HasMin = TRUE,
                              !.MinExclusive = TRUE])
    ELSE o

\* OnElement, OnAttribute: push the member, with its name
OnElement(o, attrs) ==
    [o EXCEPT !.Element =
         Append(@, Inline("Element", attrs["name"], <<>>, FALSE, FALSE, NoRestriction))]

OnAttribute(o, attrs) ==
    [o EXCEPT !.Attribute =
         Append(@, Inline("Attribute", attrs["name"], <<>>, FALSE, FALSE, NoRestriction))]

\* EndElement, EndAttribute: pop the member; it goes into the enclosing
\* ComplexType when one is open, else into ProtoTree
EndElement(o) ==
    IF Len(o.Element) = 0 THEN o
    ELSE IF Len(o.ComplexType) > 0
    THEN [o EXCEPT !.Element = Pop(@),
                   !.ComplexType =
                       SetTop(@, [Peek(@) EXCEPT !.Elements = Append(@, Peek(o.Element))])]
    ELSE [o EXCEPT !.Element = Pop(@), !.ProtoTree = Append(@, Peek(o.Element))]

EndAttribute(o) ==
    IF Len(o.Attribute) = 0 THEN o
    ELSE IF Len(o.ComplexType) > 0
    THEN [o EXCEPT !.Attribute = Pop(@),
                   !.ComplexType =
                       SetTop(@, [Peek(@) EXCEPT !.Attributes = Append(@, Peek(o.Attribute))])]
    ELSE [o EXCEPT !.Attribute = Pop(@), !.ProtoTree = Append(@, Peek(o.Attribute))]

\* EndComplexType: pop the ComplexType; it goes into ProtoTree
EndComplexType(o) ==
    IF Len(o.ComplexType) = 0 THEN o
    ELSE [o EXCEPT !.ComplexType = Pop(@), !.ProtoTree = Append(@, Peek(o.ComplexType))]

\* bound on the start events of a stream, and on its facet events; a stream
\* with facet events has one start event fewer
MaxStarts == 4

MaxFacets == 2

\* the attributes the start elements of the streams carry
SimpleTypeAttrs == { NoAttrs, ("name" :> <<"t","N">>) }

RestrictionAttrs == { NoAttrs, ("base" :> <<"x","s",":","s","t","r","i","n","g">>) }

ElementAttrs == { ("name" :> <<"e">>) }

AttributeAttrs == { ("name" :> <<"a">>) }

\* the value attribute of a facet: a number, a number with an exponent,
\* and no number
FacetAttrs == { ("value" :> <<"7">>), ("value" :> <<"1","e","1">>), ("value" :> <<"x">>) }

\* an Element or an Attribute is open
MemberOpen(o) == Len(o.Element) > 0 \/ Len(o.Attribute) > 0

\* the record of the stream, kept beside Options:
\*   open     the start elements not yet ended, the innermost last; a
\*            simpleType carries the ordinal of its OnSimpleType, an element
\*            the ordinal of its start event
\*   owner    for each entry of the SimpleType stack, the ordinal of the
\*            OnSimpleType that pushed it
\*   removed  the entries taken off the SimpleType stack: the ordinal of the
\*            entry, the handler that took it off, the simpleType that handler
\*            ran for, and whether an Element or Attribute was open
\*   slots    for each entry of Elements of the open ComplexType, the ordinal
\*            of the start event of the element that EndElement put there,
\*            0 for an element read before the stream
\*   last     the event dispatched last
\*   plain    how far the latest events spell a named simpleType started
\*            with no Element or Attribute open whose only child is a
\*            restriction that holds facets only: the depth of the SimpleType
\*            stack before it, its name, the attributes of its restriction
\*            and its facet events
NoPlain == [at |-> "none", depth |-> 0, name |-> <<>>, base |-> NoAttrs, facets |-> <<>>]

NoStream ==
    [on |-> FALSE, open |-> <<>>, ids |-> 0, owner |-> <<>>, removed |-> <<>>,
     starts |-> 0, facets |-> 0, slots |-> <<>>,
     last |-> [event |-> "none", attrs |-> NoAttrs], plain |-> NoPlain]

FacetEvents == { "OnMinLength", "OnMaxLength", "OnMinInclusive", "OnMaxInclusive", "OnMinExclusive" }

\* plain after the event, dispatched on Options o
PlainStep(p, event, attrs, o) ==
    IF event = "OnSimpleType"
    THEN IF HasAttr(attrs, "name") /\ ~MemberOpen(o)
         THEN [at |-> "simpleType", depth |-> Len(o.SimpleType), name |-> attrs["name"],
               base |-> NoAttrs, facets |-> <<>>]
         ELSE NoPlain
    ELSE IF event = "OnRestriction" /\ p.at = "simpleType"
    THEN [p EXCEPT !.at = "restriction", !.base = attrs]
    ELSE IF event \in FacetEvents /\ p.at = "restriction"
    THEN [p EXCEPT !.facets = Append(@, [event |-> event, attrs |-> attrs])]
    ELSE IF event = "EndRestriction" /\ p.at = "restriction"
    THEN [p EXCEPT !.at = "closed"]
    ELSE NoPlain

\* the ordinal of the innermost simpleType of the open elements, 0 for none
RECURSIVE InnermostSimpleType(_)
InnermostSimpleType(open) ==
    IF open = <<>> THEN 0
    ELSE IF Peek(open).tag = "simpleType" THEN Peek(open).id
    ELSE InnermostSimpleType(Pop(open))

\* owner and removed after a handler took Options from o to o2; pushed is the
\* ordinal given to an entry it pushed, closing the simpleType it ran for
Track(s, o, o2, event, pushed, closing) ==
    IF Len(o2.SimpleType) > Len(o.SimpleType)
    THEN [s EXCEPT !.owner = Append(@, pushed)]
    ELSE IF Len(o2.SimpleType) < Len(o.SimpleType)
    THEN [s EXCEPT !.owner = Pop(@),
                   !.removed = Append(@, [id |-> Peek(s.owner), by |-> event,
                                          closing |-> closing,
                                          inMember |-> Len(o.Element) > 0
                                                       \/ Len(o.Attribute) > 0])]
    ELSE s

\* the dispatcher, on a start element: InElement is its local name
DispatchStart(tag, event, attrs, o2) ==
    /\ stream.on
    /\ stream.starts < (IF stream.facets = 0 THEN MaxStarts ELSE MaxStarts - 1)
    /\ opt' = o2
    /\ \E id \in { IF tag = "simpleType" THEN stream.ids + 1
                  ELSE IF tag = "element" THEN stream.starts + 1 ELSE 0 } :
         stream' = [Track(stream, opt, o2, event, id, id) EXCEPT
                      !.open   = Append(@, [tag |-> tag, id |-> id]),
                      !.ids    = IF tag = "simpleType" THEN id ELSE @,
                      !.starts = @ + 1,
                      !.last   = [event |-> event, attrs |-> attrs],
                      !.plain  = PlainStep(@, event, attrs, opt)]
    /\ UNCHANGED <<tagVars, genVars>>

\* on the end element of the innermost open element
DispatchEnd(tag, event, o2) ==
    /\ stream.on
    /\ stream.open /= <<>>
    /\ Peek(stream.open).tag = tag
    /\ opt' = o2
    /\ \E closing \in { IF tag = "simpleType" THEN Peek(stream.open).id
                        ELSE InnermostSimpleType(stream.open) } :
         stream' = [Track(stream, opt, o2, event, 0, closing) EXCEPT
                      !.open  = Pop(@),
                      !.slots = IF tag = "element" /\ Len(opt.Element) > 0
                                   /\ Len(opt.ComplexType) > 0
                                THEN Append(@, Peek(stream.open).id)
                                ELSE IF tag = "complexType" THEN <<>> ELSE @,
                      !.last  = [event |-> event, attrs |-> NoAttrs],
                      !.plain = PlainStep(@, event, NoAttrs, opt)]
    /\ UNCHANGED <<tagVars, genVars>>

\* on a facet element inside a restriction: its start handler; its end
\* handler does nothing
DispatchFacet(event, attrs, o2) ==
    /\ stream.on
    /\ stream.facets < MaxFacets
    /\ stream.starts < MaxStarts
    /\ stream.open /= <<>>
    /\ Peek(stream.open).tag = "restriction"
    /\ opt' = o2
    /\ stream' = [Track(stream, opt, o2, event, 0, 0) EXCEPT
                    !.facets = @ + 1,
                    !.last   = [event |-> event, attrs |-> attrs],
                    !.plain  = PlainStep(@, event, attrs, opt)]
    /\ UNCHANGED <<tagVars, genVars>>

InTag(tag) == [opt EXCEPT !.InElement = tag]

StartSimpleType ==
    \E attrs \in SimpleTypeAttrs :
        DispatchStart("simpleType", "OnSimpleType", attrs,
                      OnSimpleType(InTag(<<"s","i","m","p","l","e","T","y","p","e">>), attrs))

StopSimpleType == DispatchEnd("simpleType", "EndSimpleType", EndSimpleType(opt))

StartRestriction ==
    \E attrs \in RestrictionAttrs :
        DispatchStart("restriction", "OnRestriction", attrs,
                      OnRestriction(InTag(<<"r","e","s","t","r","i","c","t","i","o","n">>), attrs))

StopRestriction == DispatchEnd("restriction", "EndRestriction", EndRestriction(opt))

StartElement ==
    \E attrs \in ElementAttrs :
        DispatchStart("element", "OnElement", attrs, OnElement(InTag(<<"e","l","e","m","e","n","t">>), attrs))

StopElement == DispatchEnd("element", "EndElement", EndElement(opt))

StartAttribute ==
    \E attrs \in AttributeAttrs :
        DispatchStart("attribute", "OnAttribute", attrs,
                      OnAttribute(InTag(<<"a","t","t","r","i","b","u","t","e">>), attrs))

StopAttribute == DispatchEnd("attribute", "EndAttribute", EndAttribute(opt))

MinLength ==
    \E attrs \in FacetAttrs : DispatchFacet("OnMinLength", attrs, OnMinLength(opt, attrs))

MaxLength ==
    \E attrs \in FacetAttrs : DispatchFacet("OnMaxLength", attrs, OnMaxLength(opt, attrs))

MinInclusive ==
    \E attrs \in FacetAttrs : DispatchFacet("OnMinInclusive", attrs, OnMinInclusive(opt, attrs))

MaxInclusive ==
    \E attrs \in FacetAttrs : DispatchFacet("OnMaxInclusive", attrs, OnMaxInclusive(opt, attrs))

MinExclusive ==
    \E attrs \in FacetAttrs : DispatchFacet("OnMinExclusive", attrs, OnMinExclusive(opt, attrs))

StopComplexType == DispatchEnd("complexType", "EndComplexType", EndComplexType(opt))

\* the elements of the open ComplexType read before the stream: none, or one
\* with an inline restriction
ElementsRead ==
    { <<>>, << Inline("Element", <<"s">>, StrInt, FALSE, FALSE, Range) >> }

\* the parser inside a complexType, after the elements read so far
InsideComplexType ==
    /\ opt \in { [NewOptions EXCEPT
                    !.ComplexType = << ComplexType(<<"c","T">>, <<>>, <<>>, es) >>]
                 : es \in ElementsRead }
    /\ stream = [NoStream EXCEPT !.on = TRUE,
                                 !.open = << [tag |-> "complexType", id |-> 0] >>,
                                 !.slots = [k \in 1..Len(Peek(opt.ComplexType).Elements) |-> 0]]

NextElements ==
    \/ StartElement \/ StopElement
    \/ StartSimpleType \/ StopSimpleType
    \/ StartRestriction \/ StopRestriction
    \/ MinLength \/ MaxLength \/ MinInclusive \/ MaxInclusive \/ MinExclusive
    \/ StopComplexType

ParseInit == opt = NewOptions /\ stream = [NoStream EXCEPT !.on = TRUE]

\* the variables of the parser, fixed
ParseIdle == opt = NewOptions /\ stream = NoStream

NextParse ==
    \/ StartSimpleType \/ StopSimpleType
    \/ StartRestriction \/ StopRestriction
    \/ StartElement \/ StopElement
    \/ StartAttribute \/ StopAttribute
    \/ MinLength \/ MaxLength \/ MinInclusive \/ MaxInclusive \/ MinExclusive

-----------------------------------------------------------------------------
(* The specifications. *)

\* the variables of the other specifications, fixed
TagIdle == call = NotReturned /\ ret = NotReturned /\ tagPc = "idle"

GenIdle ==
    /\ gen = NewGenerator(<<>>, <<>>, <<>>)
    /\ fieldNameCount = EmptyCount
    /\ pc = "idle"
    /\ output = NoFile
    /\ err = "none"
    /\ run = 1
    /\ firstOutput = [output |-> NoFile, err |-> "none"]

Init == GenInit /\ TagIdle /\ ParseIdle

Next == PhaseA \/ PhaseB \/ PhaseC \/ PhaseD \/ CreateFile \/ WriteFile

Spec == Init /\ [][Next]_vars

NextTwice == PhaseA \/ PhaseB \/ PhaseC \/ PhaseD \/ CreateFile \/ WriteFile \/ Rerun

SpecTwice == Init /\ [][NextTwice]_vars


InitTag == TagInit /\ GenIdle /\ ParseIdle

NextTag == CallBuildValidateTag

SpecTag == InitTag /\ [][NextTag]_vars

InitParse == ParseInit /\ TagIdle /\ GenIdle

SpecParse == InitParse /\ [][NextParse]_vars

InitElements == InsideComplexType /\ TagIdle /\ GenIdle

SpecElements == InitElements /\ [][NextElements]_vars

-----------------------------------------------------------------------------
(* Reading the emitted text. *)

\* GenGo has built the whole text
Emitted == pc \in {"create", "format", "done"}

Chunks == { gen.Field[i] : i \in 1..Len(gen.Field) }

TypeDecls == { c \in Chunks : c.k = "type" }

Methods == { c \in Chunks : c.k = "method" }

ChecksOf(m) == { m.checks[i] : i \in 1..Len(m.checks) }

\* the string a quoted literal denotes
RECURSIVE GoUnquoteBody(_)
GoUnquoteBody(s) ==
    IF s = <<>> THEN <<>>
    ELSE IF Head(s) = "\\" /\ Len(s) >= 2
    THEN << CASE s[2] = "t" -> "\t" [] s[2] = "n" -> "\n" [] s[2] = "r" -> "\r"
              [] OTHER -> s[2] >> \o GoUnquoteBody(SubSeq(s, 3, Len(s)))
    ELSE << Head(s) >> \o GoUnquoteBody(Tail(s))

GoUnquote(lit) == GoUnquoteBody(SubSeq(lit, 2, Len(lit) - 1))

Anchored(p) == Len(p) >= 2 /\ Head(p) = "^" /\ p[Len(p)] = "$"

\* the rules of a validate tag
RulesOf(tag) == FieldsFunc(tag, {","})

RuleSet(tag) == { RulesOf(tag)[i] : i \in 1..Len(RulesOf(tag)) }

\* every backslash of s written twice
RECURSIVE DoubleBackslashes(_)
DoubleBackslashes(s) ==
    IF s = <<>> THEN <<>>
    ELSE (IF Head(s) = "\\" THEN <<"\\", "\\">> ELSE << Head(s) >>)
         \o DoubleBackslashes(Tail(s))

ComplexTypes == { e \in { gen.ProtoTree[i] : i \in 1..Len(gen.ProtoTree) } : e.kind = "ComplexType" }

SimpleTypes == { e \in { gen.ProtoTree[i] : i \in 1..Len(gen.ProtoTree) } : e.kind = "SimpleType" }

\* the attributes and elements of a complex type
MembersOf(v) ==
    { v.Attributes[i] : i \in 1..Len(v.Attributes) } \cup { v.Elements[i] : i \in 1..Len(v.Elements) }

\* the name of the struct line written for a member
LineName(m) ==
    IF m.kind = "Attribute" THEN GoName(m.Name) \o <<"A","t","t","r">> ELSE GoName(m.Name)

\* the struct lines the text holds for member m of complex type v: the lines
\* named for m in a struct whose XMLName is tagged v.Name
LinesOf(v, m) ==
    { f \in UNION { { d.body.fields[i] : i \in 1..Len(d.body.fields) } :
                      d \in { c \in TypeDecls :
                                /\ c.body.form = "struct"
                                /\ Len(c.body.fields) > 0
                                /\ c.body.fields[1] = XMLNameField(v.Name) } } :
        f.name = LineName(m) }

\* the restriction applied to member m
Applied(m) ==
    selectRestriction(gen.ProtoTree, m, selectType(gen.ProtoTree, m).base)

-----------------------------------------------------------------------------
(* Patterns. *)

\* C1: the regular expression every emitted Validate method compiles for a
\* pattern is the pattern anchored: it starts with ^ and ends with $.
C1_MethodPatternAnchored ==
    Emitted =>
        \A m \in Methods : \A c \in ChecksOf(m) :
            c.c = "pattern" => Anchored(GoUnquote(c.lit))

\* C2: for every member of a complex type whose applied restriction has a
\* pattern with a backslash, the matches= rule of the validate tag of its
\* struct line holds the pattern with every backslash doubled.
C2_TagBackslashesDoubled ==
    Emitted =>
        \A v \in ComplexTypes : \A m \in MembersOf(v) :
            LET r == Applied(m) IN
            (r.base = StrString /\ Contains(r.r.PatternStr, << "\\" >>)) =>
                \A f \in LinesOf(v, m) :
                    (KwMatches \o <<"^">> \o DoubleBackslashes(r.r.PatternStr) \o <<"$">>)
                        \in RuleSet(f.tag.validate)

\* C3: when buildValidateTag is called with a string base and a pattern, the
\* tag it returns has one matches= rule, and that rule is matches= followed
\* by ^, the pattern as given and $, also for a pattern that has anchors.
C3_MatchesIsAnchoredPattern ==
    (tagPc = "return" /\ call.base = StrString /\ call.r.PatternStr /= <<>>) =>
        /\ (KwMatches \o <<"^">> \o call.r.PatternStr \o <<"$">>) \in RuleSet(ret)
        /\ \A rule \in RuleSet(ret) :
             HasPrefix(rule, KwMatches) =>
                 rule = KwMatches \o <<"^">> \o call.r.PatternStr \o <<"$">>

\* a call with a pattern that has its own anchors has returned
C3_Witness ==
    /\ tagPc = "return"
    /\ call.base = StrString
    /\ call.r.PatternStr = <<"^","a","$">>
    /\ (KwMatches \o <<"^","^","a","$","$">>) \in RuleSet(ret)

-----------------------------------------------------------------------------
(* Members of complex types that name a simple type. *)

\* the simple type of ProtoTree that m's TypeRef names, or 0
Named(m) == findSimpleType(gen.ProtoTree, trimNSPrefix(m.TypeRef))

\* m names a restricted simple type and has no inline restriction
NamesRestricted(m) ==
    /\ Named(m) /= 0
    /\ hasRestrictions(gen.ProtoTree[Named(m)].Restriction)
    /\ ~hasRestrictions(m.Restriction)

\* the resolved base of the simple type m names
NamedBase(m) ==
    getBasefromSimpleType(trimNSPrefix(gen.ProtoTree[Named(m)].Base), gen.ProtoTree)

\* the rules of a tag that come from facets
FacetRules(tag) == RuleSet(tag) \ {KwOmitempty, KwDive}

\* a facet of r yields a rule for base
FacetApplies(base, r) ==
    \/ /\ base = StrString
       /\ \/ r.HasLength \/ r.HasMinLength \/ r.HasMaxLength
          \/ r.PatternStr /= <<>>
          \/ /\ Len(r.Enum) > 0
             /\ \A i \in 1..Len(r.Enum) : ~ContainsAny(r.Enum[i], Whitespace)
    \/ /\ isNumericGoType(base)
       /\ r.HasMin \/ r.HasMax

\* C4 as stated: every member of a complex type that names a restricted simple
\* type and has no inline restriction carries a validate tag with rules
\* derived from the facets of that type.
C4_TagHasFacetRules ==
    Emitted =>
        \A v \in ComplexTypes : \A m \in MembersOf(v) :
            NamesRestricted(m) =>
                \A f \in LinesOf(v, m) : FacetRules(f.tag.validate) /= {}

\* C4: for every member of a complex type that names a restricted simple type
\* and has no inline restriction, the validate tag of its struct line is the
\* tag built from the resolved base and the restriction of that type, with
\* the member's optional flag and, for an element, its plural flag; it holds
\* a facet rule exactly when a facet of the type yields a rule for the base.
C4_TagProjectsNamedRestriction ==
    Emitted =>
        \A v \in ComplexTypes : \A m \in MembersOf(v) :
            NamesRestricted(m) =>
                /\ LinesOf(v, m) /= {}
                /\ \A f \in LinesOf(v, m) :
                     /\ f.tag.validate =
                            buildValidateTag(NamedBase(m), gen.ProtoTree[Named(m)].Restriction,
                                             m.Optional, m.kind = "Element" /\ m.Plural)
                     /\ FacetRules(f.tag.validate) /= {}
                            <=> FacetApplies(NamedBase(m), gen.ProtoTree[Named(m)].Restriction)

\* the attribute a1 of c1 names tA, and its line carries the pattern of tA;
\* the element e4 names tC, and its line carries no tag
C4_Witness ==
    /\ Emitted
    /\ \E v \in ComplexTypes :
         /\ \E m \in MembersOf(v) : \E f \in LinesOf(v, m) :
              /\ NamesRestricted(m)
              /\ m.Name = <<"a","1">>
              /\ f.tag.validate = <<"o","m","i","t","e","m","p","t","y",",","m","a","t","c","h","e","s","=","^">> \o << "\\" >> \o <<"d","$">>
         /\ \E m \in MembersOf(v) : \E f \in LinesOf(v, m) :
              /\ NamesRestricted(m)
              /\ m.Name = <<"e","4">>
              /\ f.tag.validate = <<>>

-----------------------------------------------------------------------------
(* Names of declarations and types of struct lines. *)

\* a type without its leading [] and *
RECURSIVE BareType(_)
BareType(t) ==
    IF HasPrefix(t, <<"[", "]">>) THEN BareType(SubSeq(t, 3, Len(t)))
    ELSE IF HasPrefix(t, <<"*">>) THEN BareType(Tail(t))
    ELSE t

\* the places of gen.Field that declare the identifier id
DeclarationsOf(id) ==
    { i \in 1..Len(gen.Field) : gen.Field[i].k = "type" /\ gen.Field[i].id = id }

\* the places of gen.Field that hold the declaration written for the
\* ProtoTree entry named name
DeclarationsFor(name) ==
    { i \in 1..Len(gen.Field) : gen.Field[i].k = "type" /\ gen.Field[i].key = name }

\* C5: for every member of a complex type whose TypeRef names a simple type
\* of ProtoTree, the type of its struct line, without a leading * or [], is
\* the identifier that simple type is declared under.
C5_FieldTypeIsDeclaredName ==
    Emitted =>
        \A v \in ComplexTypes : \A m \in MembersOf(v) :
            Named(m) /= 0 =>
                \A f \in LinesOf(v, m) :
                    \E i \in DeclarationsFor(gen.ProtoTree[Named(m)].Name) :
                        gen.Field[i].id = BareType(f.type)

\* C6: for every named simple type of ProtoTree the text holds exactly one
\* declaration of the canonical capitalisation of its name, and that
\* declaration is the one written for the simple type.
C6_OneCanonicalDeclaration ==
    Emitted =>
        \A st \in SimpleTypes :
            st.Name /= <<>> =>
                /\ Cardinality(DeclarationsOf(GoName(st.Name))) = 1
                /\ DeclarationsFor(st.Name) = DeclarationsOf(GoName(st.Name))

\* C7: for every member of a complex type, the type of its struct line is a
\* pointer when the member is optional and not plural, and a slice, with no
\* pointer around it, when the member is plural.
C7_PointerAndSlice ==
    Emitted =>
        \A v \in ComplexTypes : \A m \in MembersOf(v) : \A f \in LinesOf(v, m) :
            /\ (m.Optional /\ ~m.Plural) =>
                   (HasPrefix(f.type, <<"*">>) /\ ~HasPrefix(f.type, <<"*", "*">>))
            /\ m.Plural => HasPrefix(f.type, <<"[", "]">>)

\* C8: for every string simple type with an enumeration value that holds
\* whitespace, no validate tag of a member that takes its restriction has a
\* oneof= rule, and the Validate method of the type has a membership check
\* whose allowed values are the enumeration values, all of them.
C8_NoOneofButMembership ==
    Emitted =>
        \A st \in SimpleTypes :
            (/\ st.Name /= <<>>
             /\ getBasefromSimpleType(trimNSPrefix(st.Base), gen.ProtoTree) = StrString
             /\ \E i \in 1..Len(st.Restriction.Enum) :
                  ContainsAny(st.Restriction.Enum[i], Whitespace)) =>
                /\ \A v \in ComplexTypes : \A m \in MembersOf(v) :
                     (NamesRestricted(m) /\ gen.ProtoTree[Named(m)] = st) =>
                         \A f \in LinesOf(v, m) : \A rule \in RuleSet(f.tag.validate) :
                             ~Contains(rule, KwOneof)
                /\ \A i \in DeclarationsFor(st.Name) :
                     \E meth \in Methods :
                         /\ meth.recv = gen.Field[i].id
                         /\ \E c \in ChecksOf(meth) :
                              /\ c.c = "enum"
                              /\ Len(c.vals) = Len(st.Restriction.Enum)
                              /\ \A j \in 1..Len(c.vals) :
                                   GoUnquote(c.vals[j]) = st.Restriction.Enum[j]
                /\ DeclarationsFor(st.Name) /= {}

\* t_a, with the value "A B", is declared with its method, and a member of a
\* complex type takes its restriction
C8_Witness ==
    /\ Emitted
    /\ \E st \in SimpleTypes :
         /\ st.Restriction.Enum = << <<"A"," ","B">>, <<"C">> >>
         /\ \E i \in DeclarationsFor(st.Name) : \E meth \in Methods :
              /\ meth.recv = gen.Field[i].id
              /\ \E c \in ChecksOf(meth) : c.c = "enum" /\ c.vals = << <<"\"","A"," ","B","\"">>, <<"\"","C","\"">> >>
         /\ \E v \in ComplexTypes : \E m \in MembersOf(v) : \E f \in LinesOf(v, m) :
              /\ NamesRestricted(m)
              /\ gen.ProtoTree[Named(m)] = st
              /\ f.tag.validate = <<"l","e","n","=","2">>

-----------------------------------------------------------------------------
(* Two runs; declarations of names ProtoTree does not define. *)

\* both runs returned no error and wrote their whole text
BothWritten ==
    /\ run = 2
    /\ pc = "done"
    /\ err = "none" /\ output.complete
    /\ firstOutput.err = "none" /\ firstOutput.output.complete

\* C9: two runs of GenGo on the same ProtoTree, output file name and package
\* write the same text.
C9_RunsWriteSameText == BothWritten => output = firstOutput.output

\* the names of the entries of ProtoTree
TreeNames == { gen.ProtoTree[i].Name : i \in 1..Len(gen.ProtoTree) }

\* the declarations written for a name ProtoTree has no entry for
Undefined ==
    { c \in TypeDecls : c.key \notin TreeNames }

-----------------------------------------------------------------------------
(* The safety net. *)

\* the identifiers the text field declares
DeclaredIds(field) ==
    { field[i].id : i \in { j \in 1..Len(field) : field[j].k = "type" } }

\* the places of field that declare the identifier id
DeclarationsIn(field, id) ==
    { i \in 1..Len(field) : field[i].k = "type" /\ field[i].id = id }

\* a letter or a digit
IsAlnum(c) == IsDigit(c) \/ IsUpper(c) \/ IsLower(c)

\* the tokens of field made of T, an upper-case letter, then letters and digits
TypeTokens(field) ==
    { tok \in candidateTypes(field) : \A i \in 1..Len(tok) : IsAlnum(tok[i]) }

\* the step of GenGo that runs the safety net for the shared file
SafetyNetStep == pc = "D" /\ pc' = "create" /\ Contains(gen.File, CommonTypesFile)

\* C11: when the safety net runs for the shared file, every token T, upper
\* case letter, letters and digits of the text that was not declared before
\* has exactly one declaration afterwards, an alias of string under that
\* token, and no declaration is added for an identifier declared before.
C11_SafetyNetDeclaresUndeclaredOnce ==
    [][ SafetyNetStep =>
          /\ \A tok \in TypeTokens(gen'.Field) \ DeclaredIds(gen.Field) :
               /\ Cardinality(DeclarationsIn(gen'.Field, tok)) = 1
               /\ \A i \in DeclarationsIn(gen'.Field, tok) :
                    gen'.Field[i].body = AliasBody(StrString)
          /\ \A i \in (Len(gen.Field) + 1)..Len(gen'.Field) :
               gen'.Field[i].k = "type" => gen'.Field[i].id \notin DeclaredIds(gen.Field)
      ]_vars

-----------------------------------------------------------------------------
(* C12: the SimpleType stack over a well-nested stream. *)

\* the entries taken off the SimpleType stack
Removals == { stream.removed[i] : i \in 1..Len(stream.removed) }

\* C12, first part: every OnSimpleType so far pushed one entry, which is
\* on the stack or was taken off it once
C12_OnePushPerSimpleType ==
    /\ Len(opt.SimpleType) + Len(stream.removed) = stream.ids
    /\ \A i, j \in 1..Len(stream.removed) :
         stream.removed[i].id = stream.removed[j].id => i = j

\* C12, second part: an entry is taken off by the EndSimpleType of the
\* simpleType that pushed it, or by the EndRestriction inside that simpleType
\* while an Element or an Attribute is open
C12_RemovedByItsOwnEnd ==
    \A r \in Removals :
        /\ r.id = r.closing
        /\ r.by = "EndSimpleType" \/ (r.by = "EndRestriction" /\ r.inMember)

\* C12, third part: when every element of the stream is ended, no entry is left
C12_NothingLeft == stream.open = <<>> => opt.SimpleType = <<>>

\* C12: over a well-nested stream of simpleType, restriction, element and
\* attribute events each OnSimpleType pushes one entry, that entry is taken off
\* once, by its own EndSimpleType or by the EndRestriction inside it under an
\* open Element or Attribute, and an EndSimpleType never takes off the entry
\* of another simpleType that is still open
C12_SimpleTypeStackBalanced ==
    /\ C12_OnePushPerSimpleType
    /\ C12_RemovedByItsOwnEnd
    /\ C12_NothingLeft

\* an EndSimpleType took off the entry of a simpleType that is still open
C12_EndSimpleTypeTookAnothers ==
    \E r \in Removals :
        /\ r.by = "EndSimpleType"
        /\ r.id /= r.closing
        /\ \E k \in 1..Len(stream.open) :
             stream.open[k].tag = "simpleType" /\ stream.open[k].id = r.id

\* the regular cases: a simpleType closed by its own EndSimpleType, and one
\* whose entry the EndRestriction inside it took off
C12_RegularRemovals ==
    /\ \E r \in Removals : r.by = "EndSimpleType" /\ r.id = r.closing
    /\ \E r \in Removals : r.by = "EndRestriction" /\ r.id = r.closing /\ r.inMember
    /\ stream.open = <<>>

-----------------------------------------------------------------------------
(* C13: anonymous inline SimpleTypes and ProtoTree. *)

\* the entries a step appended to ProtoTree
AppendedBy(o, o2) ==
    { o2.ProtoTree[i] : i \in (Len(o.ProtoTree) + 1)..Len(o2.ProtoTree) }

AnonymousSimpleType(e) == e.kind = "SimpleType" /\ e.Name = <<>>

\* C13: no handler that runs while an Element or an Attribute is open, and
\* so neither EndSimpleType nor EndRestriction, appends a SimpleType with an
\* empty name to ProtoTree; ProtoTree only grows
C13_AnonymousInlineNeverInProtoTree ==
    [][ /\ Len(opt'.ProtoTree) >= Len(opt.ProtoTree)
        /\ SubSeq(opt'.ProtoTree, 1, Len(opt.ProtoTree)) = opt.ProtoTree
        /\ MemberOpen(opt) =>
             \A e \in AppendedBy(opt, opt') : ~AnonymousSimpleType(e)
      ]_vars

\* an EndSimpleType has just taken an anonymous entry off the stack under an
\* open Element or Attribute, after an EndRestriction did so, and ProtoTree
\* holds no anonymous SimpleType
C13_AnonymousClosedInMember ==
    /\ stream.last.event = "EndSimpleType"
    /\ \E i \in 1..Len(stream.removed) :
         stream.removed[i].by = "EndRestriction" /\ stream.removed[i].inMember
    /\ Len(stream.removed) > 0
    /\ stream.removed[Len(stream.removed)].by = "EndSimpleType"
    /\ stream.removed[Len(stream.removed)].inMember
    /\ MemberOpen(opt)
    /\ \A i \in 1..Len(opt.ProtoTree) : ~AnonymousSimpleType(opt.ProtoTree[i])

-----------------------------------------------------------------------------
(* C14: a facet whose value is no number. *)

\* the facet handlers that parse an integer, and those that parse a float
LengthFacets == { "OnMinLength", "OnMaxLength" }

InclusiveFacets == { "OnMinInclusive", "OnMaxInclusive" }

\* the step is the handler of one of the four facets, on a value that
\* strconv does not parse
UnparsableFacetStep ==
    /\ stream'.facets = stream.facets + 1
    /\ \/ /\ stream'.last.event \in LengthFacets
          /\ ~Atoi(stream'.last.attrs["value"]).ok
       \/ /\ stream'.last.event \in InclusiveFacets
          /\ ~ParseFloat(stream'.last.attrs["value"]).ok

\* C14: the handler of minInclusive, maxInclusive, minLength or maxLength
\* on a value that does not parse as a number leaves the SimpleType stack as it
\* was, and with it the whole Restriction of the top SimpleType: the facets set
\* earlier, an earlier Min or Max and its exclusive flag
C14_UnparsableFacetLeavesRestriction ==
    [][ UnparsableFacetStep =>
          /\ opt'.SimpleType = opt.SimpleType
          /\ Len(opt.SimpleType) > 0 =>
               Peek(opt'.SimpleType).Restriction = Peek(opt.SimpleType).Restriction
      ]_vars

\* minInclusive with a value that is no number has just run on a restriction
\* whose Min an earlier minExclusive set: Min and its exclusive flag are kept
C14_UnparsableAfterMinExclusive ==
    /\ stream.last.event = "OnMinInclusive"
    /\ ~ParseFloat(stream.last.attrs["value"]).ok
    /\ stream.facets = 2
    /\ Len(opt.SimpleType) > 0
    /\ Peek(opt.SimpleType).Restriction.HasMin
    /\ Peek(opt.SimpleType).Restriction.MinExclusive
    /\ Peek(opt.SimpleType).Restriction.Min = 10

-----------------------------------------------------------------------------
(* C15: the formatter rejects the text. *)

\* GenGo has returned the error of format.Source
FormatterRejected == pc = "done" /\ err = "format"

\* the file holds the text as GenGo built it, unformatted: the package
\* clause, the import block and every emitted declaration and method
HoldsUnformattedText ==
    /\ output.exists
    /\ output.complete
    /\ ~output.formatted
    /\ output.package = packageName(gen)
    /\ output.imports = importPackages(gen)
    /\ Len(output.field) = Len(gen.Field)
    /\ \A i \in 1..Len(gen.Field) :
         /\ output.field[i].k = gen.Field[i].k
         /\ gen.Field[i].k = "type" =>
              /\ output.field[i].id = gen.Field[i].id
              /\ output.field[i].body = gen.Field[i].body
         /\ gen.Field[i].k = "method" => output.field[i] = gen.Field[i]

-----------------------------------------------------------------------------
(* C16: the errors of creating and writing the output file. *)

\* GenGo has returned
Returned == pc = "done"

\* C16, first part: when os.Create fails, the error returned is not nil
C16_CreateFailureReturned == Returned /\ ~output.exists => err /= "none"

\* C16: GenGo returns a nil error only if the output file was created and the
\* complete text was written to it; a failure to create or to write the file
\* gives an error that is not nil
C16_NilOnlyIfCompleteTextWritten ==
    /\ C16_CreateFailureReturned
    /\ Returned /\ err = "none" => output.exists /\ output.complete

\* GenGo returned nil and the file holds the complete, formatted text
C16_NilAndWritten ==
    Returned /\ err = "none" /\ output.exists /\ output.complete /\ output.formatted

\* GenGo returned nil and the file is empty
C16_NilAndEmpty ==
    /\ Returned
    /\ err = "none"
    /\ output = EmptyFile(FileWithExtension(gen.File, <<".","g","o">>))

-----------------------------------------------------------------------------
(* C17: the import block. *)

\* the types the declaration chunk names: that of an alias, those of the
\* lines of a struct
TypesNamedBy(chunk) ==
    IF chunk.body.form = "alias" THEN { chunk.body.type }
    ELSE { chunk.body.fields[i].type : i \in 1..Len(chunk.body.fields) }

\* the emitted text refers to the package: a declaration names time.Time or
\* xml.Name, a Validate method holds a fmt.Errorf (every check but the
\* statement around the checks of a field is one) or a regexp.MustCompile
References(field, package) ==
    Once({ (
    IF package = <<"t","i","m","e">>
    THEN \E c \in chunks : c.k = "type" /\ \E t \in TypesNamedBy(c) : Contains(t, StrTime)
    ELSE IF package = <<"e","n","c","o","d","i","n","g","/","x","m","l">>
    THEN \E c \in chunks : c.k = "type" /\ \E t \in TypesNamedBy(c) : Contains(t, <<"x","m","l",".","N","a","m","e">>)
    ELSE IF package = <<"f","m","t">>
    THEN \E c \in chunks : c.k = "method"
                           /\ \E i \in 1..Len(c.checks) : c.checks[i].c /= "field"
    ELSE \E c \in chunks : c.k = "method"
                           /\ \E i \in 1..Len(c.checks) : c.checks[i].c = "pattern"
    ) : chunks \in { { field[i] : i \in 1..Len(field) } } })

Imported(package) == \E i \in 1..Len(importPackages(gen)) : importPackages(gen)[i] = package

ImportedOnlyIfReferenced(package) == Imported(package) => References(gen.Field, package)

\* C17 for time, encoding/xml and regexp: once the text is emitted, the
\* import block lists the package only if the text refers to it
C17_OtherImportsReferenced ==
    Emitted =>
        /\ ImportedOnlyIfReferenced(<<"t","i","m","e">>)
        /\ ImportedOnlyIfReferenced(<<"e","n","c","o","d","i","n","g","/","x","m","l">>)
        /\ ImportedOnlyIfReferenced(<<"r","e","g","e","x","p">>)

\* C17: once the text is emitted, the import block lists time, encoding/xml,
\* fmt or regexp only if a declaration or method of the text refers to the
\* package; fmt only if a Validate method holds a fmt.Errorf
C17_ImportsOnlyReferenced ==
    /\ C17_OtherImportsReferenced
    /\ Emitted => ImportedOnlyIfReferenced(<<"f","m","t">>)

\* the text imports fmt and no Validate method holds a fmt.Errorf
C17_FmtImportedUnused ==
    Emitted /\ Imported(<<"f","m","t">>) /\ ~References(gen.Field, <<"f","m","t">>)

\* the text imports all four packages and refers to each
C17_AllFourImported ==
    /\ Emitted
    /\ Len(importPackages(gen)) = 4
    /\ \A i \in 1..4 : References(gen.Field, importPackages(gen)[i])

-----------------------------------------------------------------------------
(* C18: the Validate methods of the named simple types. *)

NamedSimpleTypes == { e \in SimpleTypes : e.Name /= <<>> }

\* the identifiers the text declares for the ProtoTree name
DeclaredTypeOf(name) == { gen.Field[i].id : i \in DeclarationsFor(name) }

\* the text holds a Validate method of the type declared for the name
HasValidate(name) ==
    \E id \in DeclaredTypeOf(name) : \E m \in Methods : m.recv = id

\* C18, for the simple types that are neither list nor union: one with a
\* rule has a Validate method, one without has none
C18_PlainSimpleTypeValidates ==
    Emitted =>
        \A v \in NamedSimpleTypes :
            ~v.List /\ ~v.Union => (HasValidate(v.Name) <=> hasRestrictions(v.Restriction))

\* C18: once the text is emitted, every named SimpleType of ProtoTree whose
\* Restriction has a rule, list and union simple types too, has a Validate
\* method on its declared type, and a named SimpleType whose Restriction is
\* empty has none
C18_RestrictedSimpleTypeValidates ==
    Emitted =>
        \A v \in NamedSimpleTypes : HasValidate(v.Name) <=> hasRestrictions(v.Restriction)

\* a list or union simple type with a rule is declared without a Validate
\* method
C18_ListOrUnionWithoutValidate ==
    /\ Emitted
    /\ \E v \in NamedSimpleTypes :
         /\ v.List \/ v.Union
         /\ hasRestrictions(v.Restriction)
         /\ DeclaredTypeOf(v.Name) /= {}
         /\ ~HasValidate(v.Name)

\* a plain simple type with a rule and one without are both declared, the
\* first with a Validate method
C18_PlainBothCases ==
    /\ Emitted
    /\ \E v, w \in NamedSimpleTypes :
         /\ ~v.List /\ ~v.Union /\ hasRestrictions(v.Restriction) /\ HasValidate(v.Name)
         /\ ~w.List /\ ~w.Union /\ ~hasRestrictions(w.Restriction)
         /\ DeclaredTypeOf(w.Name) /= {} /\ ~HasValidate(w.Name)

-----------------------------------------------------------------------------
(* C19: the optional fields of a ComplexType. *)

IsSlice(f) == HasPrefix(f.type, <<"[", "]">>)

PointerAndOmitempty(f) ==
    HasPrefix(f.type, <<"*">>) /\ Contains(f.tag.xml, <<",","o","m","i","t","e","m","p","t","y">>)

\* the lines of the optional members of kind kind that are no slices
OptionalLines(kind) ==
    UNION { LinesOf(v, m) : <<v, m>> \in { vm \in UNION { { <<v1, m1>> : m1 \in MembersOf(v1) } : v1 \in ComplexTypes } :
                                               vm[2].kind = kind /\ vm[2].Optional } }

\* C19 for elements: the line of an optional element that is no slice has a
\* pointer type and ,omitempty in its xml tag
C19_OptionalElementPointerOmitempty ==
    Emitted => \A f \in OptionalLines("Element") : ~IsSlice(f) => PointerAndOmitempty(f)

\* C19: once the text is emitted, the struct line of every optional attribute
\* or element of a ComplexType that is no slice has a pointer type and
\* ,omitempty in its xml tag
C19_OptionalFieldPointerOmitempty ==
    Emitted =>
        \A f \in OptionalLines("Element") \cup OptionalLines("Attribute") :
            ~IsSlice(f) => PointerAndOmitempty(f)

\* the line of an optional attribute has a pointer type and no ,omitempty
C19_OptionalAttributeWithoutOmitempty ==
    /\ Emitted
    /\ \E f \in OptionalLines("Attribute") :
         HasPrefix(f.type, <<"*">>) /\ ~Contains(f.tag.xml, <<",","o","m","i","t","e","m","p","t","y">>)

\* the line of an optional element that is no slice is emitted
C19_OptionalElementEmitted ==
    /\ Emitted
    /\ \E f \in OptionalLines("Element") : ~IsSlice(f) /\ PointerAndOmitempty(f)

-----------------------------------------------------------------------------
(* C20: the rules of a validate tag and their order. *)

\* the rule, when its condition holds
Part(condition, rule) == IF condition THEN << rule >> ELSE <<>>

\* the rules of a string base, in order; whitespaceToo: oneof is written
\* also when an enum value holds whitespace
StringParts(r, whitespaceToo) ==
    Part(r.HasLength, <<"l","e","n","=">> \o Itoa(r.Length))
    \o Part(~r.HasLength /\ r.HasMinLength, <<"m","i","n","=">> \o Itoa(r.MinLength))
    \o Part(~r.HasLength /\ r.HasMaxLength, <<"m","a","x","=">> \o Itoa(r.MaxLength))
    \o Part(r.PatternStr /= <<>>, <<"m","a","t","c","h","e","s","=","^">> \o r.PatternStr \o <<"$">>)
    \o Part(/\ Len(r.Enum) > 0
            /\ whitespaceToo \/ \A i \in 1..Len(r.Enum) : \A k \in 1..Len(r.Enum[i]) :
                                   r.Enum[i][k] \notin Whitespace,
            <<"o","n","e","o","f","=">> \o Join(r.Enum, <<" ">>))

\* the rules of a numeric base, in order
NumericParts(r) ==
    Part(r.HasMin /\ r.MinExclusive, <<"g","t","=">> \o Itoa(r.Min))
    \o Part(r.HasMin /\ ~r.MinExclusive, <<"g","t","e","=">> \o Itoa(r.Min))
    \o Part(r.HasMax /\ r.MaxExclusive, <<"l","t","=">> \o Itoa(r.Max))
    \o Part(r.HasMax /\ ~r.MaxExclusive, <<"l","t","e","=">> \o Itoa(r.Max))

\* the rules after dive
PartsAfterDive(c, whitespaceToo) ==
    Part(c.optional, <<"o","m","i","t","e","m","p","t","y">>)
    \o (IF c.base = StrString THEN StringParts(c.r, whitespaceToo) ELSE <<>>)
    \o (IF isNumericGoType(c.base) THEN NumericParts(c.r) ELSE <<>>)

\* buildValidateTag has returned, for a restriction with a rule
TagReturned == tagPc = "return" /\ hasRestrictions(call.r)

\* C20 as stated: for a restriction with a rule, the tag is the list, joined
\* by commas, of dive for a slice, omitempty for an optional field, the rules
\* of a string base (len, or min and max; matches; oneof with the enum values)
\* and those of a numeric base (gt or gte, then lt or lte)
C20_TagIsOrderedRuleList ==
    TagReturned =>
        ret = Join(Part(call.isSlice, <<"d","i","v","e">>) \o PartsAfterDive(call, TRUE), <<",">>)

\* C20, amended: the same list, with oneof only when no enum value holds
\* whitespace, and the empty tag when the list holds nothing after dive
C20_TagIsOrderedRuleListOrEmpty ==
    TagReturned =>
        ret = IF PartsAfterDive(call, FALSE) = <<>> THEN <<>>
              ELSE Join(Part(call.isSlice, <<"d","i","v","e">>) \o PartsAfterDive(call, FALSE), <<",">>)

\* with each value whose Has flag is not set put to zero
FlaggedOnly(r) ==
    [r EXCEPT !.Length    = IF r.HasLength THEN @ ELSE 0,
              !.MinLength = IF r.HasMinLength THEN @ ELSE 0,
              !.MaxLength = IF r.HasMaxLength THEN @ ELSE 0,
              !.Min       = IF r.HasMin THEN @ ELSE 0,
              !.Max       = IF r.HasMax THEN @ ELSE 0]

\* C20, the values: the tag is that of the restriction without the values
\* whose Has flag is not set
C20_UnflaggedValuesUnused ==
    TagReturned =>
        ret = buildValidateTag(call.base, FlaggedOnly(call.r), call.optional, call.isSlice)

\* a tag with dive, omitempty and every rule of a string base has been
\* returned, on a restriction that holds a length value without its flag
C20_FullStringTag ==
    /\ TagReturned
    /\ call.isSlice /\ call.optional /\ call.base = StrString
    /\ ~call.r.HasLength /\ call.r.Length /= 0
    /\ call.r.HasMinLength /\ call.r.HasMaxLength
    /\ call.r.PatternStr /= <<>> /\ Len(call.r.Enum) = 2
    /\ call.r.HasMin /\ call.r.HasMax
    /\ ret = <<"d","i","v","e",",","o","m","i","t","e","m","p","t","y",",","m","i","n","=","1",",","m","a","x","=","3",",","m","a","t","c","h","e","s","=","^","a","$",",","o","n","e","o","f","=","A"," ","A">>

\* the tag of a restriction whose enum holds a value with whitespace has no
\* oneof rule
C20_OneofLeftOut ==
    /\ TagReturned
    /\ call.base = StrString
    /\ \E i \in 1..Len(call.r.Enum) : ContainsAny(call.r.Enum[i], Whitespace)
    /\ ret /= <<>>
    /\ ~Contains(ret, <<"o","n","e","o","f","=">>)

\* the tag of a slice is empty, not dive, when no rule applies to the base
C20_DiveAloneIsEmpty ==
    /\ TagReturned
    /\ call.isSlice
    /\ ~call.optional
    /\ call.base = StrBool
    /\ ret = <<>>

-----------------------------------------------------------------------------
(* C21: the restriction and the base of a validate tag. *)

AttributeGroups ==
    { e \in { gen.ProtoTree[i] : i \in 1..Len(gen.ProtoTree) } :
        e.kind = "AttributeGroup" /\ Len(e.Attributes) > 0 }

\* the attributes and elements GoComplexType and GoAttributeGroup emit, each
\* with the entry it is a member of
EmittedMembers ==
    UNION { { <<v, m>> : m \in MembersOf(v) } : v \in ComplexTypes }
    \cup UNION { { <<v, v.Attributes[i]>> : i \in 1..Len(v.Attributes) } : v \in AttributeGroups }

\* the SimpleType of ProtoTree a name refers to: its index, 0 for none, and
\* for no name
SimpleTypeNamed(name) ==
    IF name /= <<>> /\ \E i \in 1..Len(gen.ProtoTree) :
           gen.ProtoTree[i].kind = "SimpleType" /\ gen.ProtoTree[i].Name = trimNSPrefix(name)
    THEN CHOOSE i \in 1..Len(gen.ProtoTree) :
           /\ gen.ProtoTree[i].kind = "SimpleType"
           /\ gen.ProtoTree[i].Name = trimNSPrefix(name)
           /\ \A j \in 1..(i - 1) : ~(gen.ProtoTree[j].kind = "SimpleType"
                                      /\ gen.ProtoTree[j].Name = trimNSPrefix(name))
    ELSE 0

\* the case of the order that applies to the member
RestrictionCase(m) ==
    IF hasRestrictions(m.Restriction) THEN "inline"
    ELSE IF SimpleTypeNamed(m.TypeRef) /= 0 THEN "TypeRef"
    ELSE IF SimpleTypeNamed(m.Type) /= 0 THEN "Type"
    ELSE "none"

\* the restriction the order gives
ChosenRestriction(m) ==
    CASE RestrictionCase(m) = "inline"  -> m.Restriction
      [] RestrictionCase(m) = "TypeRef" -> gen.ProtoTree[SimpleTypeNamed(m.TypeRef)].Restriction
      [] RestrictionCase(m) = "Type"    -> gen.ProtoTree[SimpleTypeNamed(m.Type)].Restriction
      [] OTHER -> NoRestriction

\* the primitive the type of the member resolves to
ResolvedBase(m) ==
    getBasefromSimpleType(IF m.TypeRef /= <<>> THEN m.TypeRef ELSE m.Type, gen.ProtoTree)

\* the line of the member in the struct declared for the entry
MemberLines(v, m) ==
    { f \in UNION { { d.body.fields[i] : i \in 1..Len(d.body.fields) } :
                      d \in { c \in TypeDecls : c.key = v.Name /\ c.body.form = "struct" } } :
        f.name = LineName(m) }

\* C21: the validate tag of every attribute and element that GoComplexType
\* or GoAttributeGroup emits is the tag of the restriction chosen in the order
\* inline, SimpleType named by TypeRef, SimpleType named by Type, none, built
\* on the primitive base the type resolves to
C21_TagOfChosenRestriction ==
    Emitted =>
        \A vm \in EmittedMembers :
            \A f \in MemberLines(vm[1], vm[2]) :
                f.tag.validate =
                    buildValidateTag(ResolvedBase(vm[2]), ChosenRestriction(vm[2]),
                                     vm[2].Optional,
                                     vm[2].kind = "Element" /\ vm[2].Plural)

\* the same of the members without inline rules, in a ProtoTree where every
\* SimpleType has a name
C21_TagOfNamedRestriction ==
    Emitted /\ (\A e \in SimpleTypes : e.Name /= <<>>) =>
        \A vm \in EmittedMembers :
            RestrictionCase(vm[2]) /= "inline" =>
                \A f \in MemberLines(vm[1], vm[2]) :
                    f.tag.validate =
                        buildValidateTag(ResolvedBase(vm[2]), ChosenRestriction(vm[2]),
                                         vm[2].Optional,
                                         vm[2].kind = "Element" /\ vm[2].Plural)

\* the element n4 of c3 has an inline range on the base tB, an int in
\* ProtoTree, and its line has no validate tag
C21_InlineRulesOnNamedBaseLost ==
    /\ Emitted
    /\ \E vm \in EmittedMembers :
         /\ vm[2].Name = <<"n","4">>
         /\ RestrictionCase(vm[2]) = "inline"
         /\ ResolvedBase(vm[2]) = StrInt
         /\ \E f \in MemberLines(vm[1], vm[2]) : f.tag.validate = <<>>

\* the tag of the member of the entry named v is tag, in the case given
TagInCase(v, name, case, tag) ==
    \E vm \in EmittedMembers :
        /\ vm[1].Name = v
        /\ vm[2].Name = name
        /\ RestrictionCase(vm[2]) = case
        /\ \E f \in MemberLines(vm[1], vm[2]) : f.tag.validate = tag

\* the attribute group gA is emitted with tA and tB in ProtoTree: b1 carries
\* the pattern of the tA its TypeRef names, b2 and b4 their inline rules, b3
\* the range of the tB its Type names
C21_EveryCaseEmitted ==
    /\ Emitted
    /\ TagInCase(<<"g","A">>, <<"b","1">>, "TypeRef", <<"o","m","i","t","e","m","p","t","y",",","m","a","t","c","h","e","s","=","^">> \o << "\\" >> \o <<"d","$">>)
    /\ TagInCase(<<"g","A">>, <<"b","2">>, "inline", <<"m","i","n","=","1",",","m","a","t","c","h","e","s","=","^","a","$">>)
    /\ TagInCase(<<"g","A">>, <<"b","3">>, "Type", <<"g","t","e","=","0",",","l","t","e","=","9">>)
    /\ TagInCase(<<"g","A">>, <<"b","4">>, "inline", <<"m","i","n","=","1">>)

-----------------------------------------------------------------------------
(* C22: a named simpleType whose restriction holds its facets. *)

\* the handler of a facet event
FacetHandler(event, o, attrs) ==
    CASE event = "OnMinLength"    -> OnMinLength(o, attrs)
      [] event = "OnMaxLength"    -> OnMaxLength(o, attrs)
      [] event = "OnMinInclusive" -> OnMinInclusive(o, attrs)
      [] event = "OnMaxInclusive" -> OnMaxInclusive(o, attrs)
      [] event = "OnMinExclusive" -> OnMinExclusive(o, attrs)

RECURSIVE RunFacets(_, _)
RunFacets(o, facets) ==
    IF facets = <<>> THEN o
    ELSE RunFacets(FacetHandler(Head(facets).event, o, Head(facets).attrs), Tail(facets))

\* the entry the handlers build for the simpleType of p on their own: its
\* name, the base its restriction resolves to over tree, and what its facet
\* handlers set
PlainEntry(p, tree) ==
    Peek(RunFacets(OnRestriction(OnSimpleType([NewOptions EXCEPT !.ProtoTree = tree],
                                              ("name" :> p.name)),
                                 p.base),
                   p.facets).SimpleType)

\* the step is the EndRestriction, and the EndSimpleType, of such a simpleType
PlainEndRestriction == stream.plain.at = "restriction" /\ stream'.plain.at = "closed"

PlainEndSimpleType ==
    /\ stream.plain.at = "closed"
    /\ stream'.last.event = "EndSimpleType"
    /\ Len(stream'.open) < Len(stream.open)

\* C22: for a named simpleType with a restriction child that holds facets,
\* read while no Element or Attribute is open and InUnion is false,
\* EndRestriction leaves the entry on the SimpleType stack and ProtoTree as it
\* is; the EndSimpleType that follows takes the entry off and appends it to
\* ProtoTree, once, with its name, its resolved base and every facet the facet
\* handlers set, and the stack is as deep as before OnSimpleType
C22_NamedSimpleTypeAppendedOnce ==
    [][ /\ PlainEndRestriction =>
             /\ ~MemberOpen(opt) /\ ~opt.InUnion
             /\ opt'.SimpleType = opt.SimpleType
             /\ opt'.ProtoTree = opt.ProtoTree
             /\ Len(opt.SimpleType) = stream.plain.depth + 1
             /\ Peek(opt.SimpleType) = PlainEntry(stream.plain, opt.ProtoTree)
        /\ PlainEndSimpleType =>
             /\ ~MemberOpen(opt) /\ ~opt.InUnion
             /\ opt'.ProtoTree = Append(opt.ProtoTree, PlainEntry(stream.plain, opt.ProtoTree))
             /\ opt'.SimpleType = Pop(opt.SimpleType)
             /\ Len(opt'.SimpleType) = stream.plain.depth
      ]_vars

\* simpleType tN, with a restriction of xs:string that holds minLength 7 and
\* maxLength 7, is ended: ProtoTree holds it once, with both facets
C22_NamedWithFacetsInProtoTree ==
    /\ stream.last.event = "EndSimpleType"
    /\ stream.starts = 2 /\ stream.facets = 2
    /\ opt.SimpleType = <<>>
    /\ Len(opt.ProtoTree) = 1
    /\ opt.ProtoTree[1].Name = <<"t","N">>
    /\ opt.ProtoTree[1].Base = StrString
    /\ opt.ProtoTree[1].Restriction.HasMinLength
    /\ opt.ProtoTree[1].Restriction.MinLength = 7
    /\ opt.ProtoTree[1].Restriction.HasMaxLength
    /\ opt.ProtoTree[1].Restriction.MaxLength = 7

-----------------------------------------------------------------------------
(* C23: the SimpleType entries in the second pass. *)

\* the generator as the second pass finds it at entry i
RECURSIVE SecondPassBefore(_)
SecondPassBefore(i) ==
    IF i = 1 THEN Pack(gen, fieldNameCount)
    ELSE Once({ ( callFuncByName(g, g.ProtoTree[i - 1]) ) : g \in { SecondPassBefore(i - 1) } })

\* the chunks the second pass adds to the text at entry i
AddedAt(i) ==
    Once({ ( Len(callFuncByName(g, g.ProtoTree[i]).Field) - Len(g.Field)
           ) : g \in { SecondPassBefore(i) } })

\* C23: in the second pass no SimpleType entry of ProtoTree adds anything to
\* the emitted text; the text grows only at ComplexType, Group,
\* AttributeGroup, Element and Attribute entries
C23_SimpleTypeEntriesAddNothing ==
    pc = "B" =>
        \A i \in 1..Len(gen.ProtoTree) :
            gen.ProtoTree[i].kind = "SimpleType" => AddedAt(i) = 0

\* the same of the named SimpleType entries
C23_NamedSimpleTypeEntriesAddNothing ==
    pc = "B" =>
        \A i \in 1..Len(gen.ProtoTree) :
            isNamedSimpleType(gen.ProtoTree[i]) => AddedAt(i) = 0

\* the second pass is about to run on a schema with named SimpleTypes, none of
\* which adds anything, and an entry of another kind that does
C23_SecondPassOverNamed ==
    /\ pc = "B"
    /\ \E i, j \in 1..Len(gen.ProtoTree) :
         /\ isNamedSimpleType(gen.ProtoTree[i]) /\ AddedAt(i) = 0
         /\ gen.ProtoTree[j].kind = "ComplexType" /\ AddedAt(j) > 0

-----------------------------------------------------------------------------
(* C24: the named simple types are declared first. *)

\* the names of the named SimpleType entries, and of the entries of the
\* other kinds that are no name of a SimpleType
SimpleTypeNames ==
    { gen.ProtoTree[i].Name : i \in { k \in 1..Len(gen.ProtoTree) :
                                        isNamedSimpleType(gen.ProtoTree[k]) } }

ComponentNames ==
    { gen.ProtoTree[i].Name : i \in { k \in 1..Len(gen.ProtoTree) :
                                        gen.ProtoTree[k].kind /= "SimpleType" } }
    \ SimpleTypeNames

\* the places in the text of the declarations written for these names
DeclarationsForAny(names) == UNION { DeclarationsFor(n) : n \in names }

\* C24: in the emitted text the declaration of every named SimpleType of
\* ProtoTree comes before the declaration of every ComplexType, Group,
\* AttributeGroup, Element and Attribute, in whatever order ProtoTree holds them
C24_SimpleTypesDeclaredFirst ==
    Emitted =>
        /\ \A n \in SimpleTypeNames : DeclarationsFor(n) /= {}
        /\ \A i \in DeclarationsForAny(SimpleTypeNames), j \in DeclarationsForAny(ComponentNames) : i < j

\* ProtoTree holds a ComplexType and an Element before a named SimpleType,
\* and the text declares the SimpleType before both
C24_DeclaredAgainstTreeOrder ==
    /\ Emitted
    /\ Len(gen.ProtoTree) = 3
    /\ gen.ProtoTree[1].kind = "ComplexType"
    /\ gen.ProtoTree[2].kind = "Element"
    /\ isNamedSimpleType(gen.ProtoTree[3])
    /\ \E i \in DeclarationsFor(gen.ProtoTree[3].Name) :
         /\ \E j \in DeclarationsFor(gen.ProtoTree[1].Name) : i < j
         /\ \E j \in DeclarationsFor(gen.ProtoTree[2].Name) : i < j

-----------------------------------------------------------------------------
(* C25: the Elements slot that EndRestriction writes. *)

\* the ordinal of the innermost open element, 0 for none
RECURSIVE InnermostElement(_)
InnermostElement(open) ==
    IF open = <<>> THEN 0
    ELSE IF Peek(open).tag = "element" THEN Peek(open).id
    ELSE InnermostElement(Pop(open))

\* the step is an EndRestriction that projects the top SimpleType onto the
\* open Element, inside a ComplexType
ProjectsOntoElement ==
    /\ stream.open /= <<>>
    /\ Peek(stream.open).tag = "restriction"
    /\ Len(stream'.open) < Len(stream.open)
    /\ Len(opt.SimpleType) > 0
    /\ Len(opt.Attribute) = 0
    /\ Len(opt.Element) > 0
    /\ Len(opt.ComplexType) > 0

\* C25: when EndRestriction projects an inline restriction onto the open
\* Element, an entry of Elements of the enclosing ComplexType that it changes
\* is the entry of that same Element; the entries of the other elements keep
\* their name, type and restriction
C25_PatchedSlotIsOwn ==
    [][ ProjectsOntoElement =>
          /\ Len(Peek(opt'.ComplexType).Elements) = Len(Peek(opt.ComplexType).Elements)
          /\ \A k \in 1..Len(Peek(opt.ComplexType).Elements) :
               Peek(opt'.ComplexType).Elements[k] /= Peek(opt.ComplexType).Elements[k]
                   => stream.slots[k] = InnermostElement(stream.open)
      ]_vars

\* the entry of the element s, read before, now holds the open element e
C25_SiblingOverwritten ==
    /\ Len(opt.ComplexType) > 0
    /\ Len(opt.Element) > 0
    /\ stream.slots = << 0 >>
    /\ Peek(opt.ComplexType).Elements = << Peek(opt.Element) >>
    /\ Peek(opt.Element).Name = <<"e">>

-----------------------------------------------------------------------------
(* C26: one declaration for an identifier. *)

\* the places of the text with a top-level type declaration
TypeDeclarations == { i \in 1..Len(gen.Field) : gen.Field[i].k = "type" }

\* C26: when GenGo has built the text, for every ProtoTree, no identifier is
\* declared by two of its top-level type declarations
C26_NoIdentifierDeclaredTwice ==
    Emitted =>
        \A i, j \in TypeDeclarations : gen.Field[i].id = gen.Field[j].id => i = j

\* SimpleType tA and the top-level Element TA are both declared as TA
C26_ElementRedeclaresSimpleType ==
    /\ Emitted
    /\ \E i, j \in TypeDeclarations :
         /\ i < j
         /\ gen.Field[i].key = <<"t","A">> /\ gen.Field[i].id = <<"T","A">>
         /\ gen.Field[j].key = <<"T","A">> /\ gen.Field[j].id = <<"T","A">>

-----------------------------------------------------------------------------
(* C27: a tag holds a rule of a facet. *)

\* the keywords of the rules made from facets
FacetKeywords == { KwLen, KwMin, KwMax, KwMatches, KwOneof, KwGt, KwGte, KwLt, KwLte }

HasFacetRule(tag) == \E kw \in FacetKeywords : Contains(tag, kw)

\* C27: buildValidateTag returns the empty string or a tag with at least one
\* rule made from a facet; never a tag made of omitempty, of dive, or of both
C27_TagEmptyOrHasFacetRule ==
    tagPc = "return" => ret = <<>> \/ HasFacetRule(ret)

\* the same of the fields that are not optional
C27_RequiredTagEmptyOrHasFacetRule ==
    tagPc = "return" /\ ~call.optional => ret = <<>> \/ HasFacetRule(ret)

\* for a slice that is not optional and a string base whose only rule is an
\* enum with whitespace in a value, the tag is empty
C27_RequiredSliceWithoutRule ==
    /\ TagReturned
    /\ call.isSlice /\ ~call.optional /\ call.base = StrString
    /\ tagRules(call.base, call.r, FALSE) = <<>>
    /\ ret = <<>>

\* for an optional slice of a base that is neither string nor numeric, the
\* tag returned is dive,omitempty
C27_OnlyDiveAndOmitempty ==
    /\ TagReturned
    /\ call.isSlice /\ call.optional /\ call.base = StrBool
    /\ ret = <<"d","i","v","e",",","o","m","i","t","e","m","p","t","y">>

-----------------------------------------------------------------------------
(* C28: the declaration of a simple type, whoever emits it. *)

\* the checks of a Validate method, without the identifier they name
Unnamed(checks) == [m \in 1..Len(checks) |-> [checks[m] EXCEPT !.subject = <<>>]]

\* what a text declares for the name, the identifier apart: the content of
\* the declaration, and the checks of the Validate method on the identifier
DeclaredFor(field, name) ==
    { [body |-> field[i].body,
       validate |-> { Unnamed(field[j].checks) : j \in { k \in 1..Len(field) :
                         field[k].k = "method" /\ field[k].recv = field[i].id } }]
      : i \in { k \in 1..Len(field) : field[k].k = "type" /\ field[k].key = name } }

\* what GoSimpleType declares for st when nothing is emitted yet
ByGoSimpleType(st) ==
    DeclaredFor(GoSimpleType(Pack(NewGenerator(gen.File, gen.Package, gen.ProtoTree),
                                  EmptyCount), st).Field,
                st.Name)

\* C28: the declaration in the text of a named SimpleType is the one
\* GoSimpleType emits for it, also when ensureNamedType emitted it for a
\* union, ahead in ProtoTree, that lists it as a member; a list or a union is
\* declared alike wherever it stands in ProtoTree
C28_DeclaredAsByGoSimpleType ==
    Emitted =>
        \A st \in NamedSimpleTypes :
            DeclaredFor(gen.Field, st.Name) = ByGoSimpleType(st)

\* the same of the SimpleTypes that are neither list nor union
C28_PlainDeclaredAsByGoSimpleType ==
    Emitted =>
        \A st \in NamedSimpleTypes :
            ~st.List /\ ~st.Union => DeclaredFor(gen.Field, st.Name) = ByGoSimpleType(st)

\* the union tV stands before its member tE in ProtoTree, tE is declared
\* before tV in the text, and as GoSimpleType declares it
C28_MemberDeclaredForUnion ==
    /\ Emitted
    /\ \E i, j \in 1..Len(gen.ProtoTree) :
         /\ i < j
         /\ gen.ProtoTree[i].kind = "SimpleType" /\ gen.ProtoTree[i].Name = <<"t","V">>
         /\ gen.ProtoTree[j].kind = "SimpleType" /\ gen.ProtoTree[j].Name = <<"t","E">>
         /\ DeclaredFor(gen.Field, <<"t","E">>) = ByGoSimpleType(gen.ProtoTree[j])
    /\ \E i \in DeclarationsFor(<<"t","E">>), j \in DeclarationsFor(<<"t","V">>) : i < j

\* the list tL, a member of the union tV that stands before it, is declared
\* as an alias of string
C28_ListDeclaredAsAlias ==
    /\ Emitted
    /\ \E i \in DeclarationsFor(<<"t","L">>) :
         /\ gen.Field[i].body = AliasBody(StrString)
         /\ \E j \in DeclarationsFor(<<"t","V">>) : i < j

=============================================================================
